---- MODULE Spec2Model ----
(***************************************************************************)
(* Form-schema engine of the form builder: the response-visibility         *)
(* evaluator and response assembler of FormPreview (both variants of the   *)
(* component found in the repository), the tree linearizer of FormBuilder   *)
(* (reorganizeQuestions), the save path of FormBuilder (handleSaveForm) and *)
(* the storage collaborators: the forms router of the server and the       *)
(* IndexedDB FormContext.                                                  *)
(***************************************************************************)
EXTENDS Integers, Sequences, FiniteSets, TLC

(***************************************************************************)
(* Bounds                                                                  *)
(***************************************************************************)
\* number of options of a select / multiselect question
MaxOptions == 2
\* number of times the linearizer is applied to a working set in a row
MaxPasses == 2

(***************************************************************************)
(* JavaScript values                                                       *)
(***************************************************************************)
\* an optional string field that is not set (undefined)
None == "none"

Undefined == [t |-> "undefined"]
Str(s) == [t |-> "string", s |-> s]
Num(n) == [t |-> "number", n |-> n]
Bool(b) == [t |-> "boolean", b |-> b]
Arr(a) == [t |-> "array", a |-> a]

\* ToBoolean: undefined, '', 0 and false are falsy; every array is truthy
Truthy(v) ==
  CASE v.t = "undefined" -> FALSE
    [] v.t = "string" -> v.s # ""
    [] v.t = "number" -> v.n # 0
    [] v.t = "boolean" -> v.b
    [] v.t = "array" -> TRUE

\* value === optionId, for an optional string optionId
StrictEqualsId(v, optionId) ==
  IF optionId = None THEN v.t = "undefined"
  ELSE v.t = "string" /\ v.s = optionId

\* Array.isArray(value) && value.includes(optionId)
ArrayIncludesId(v, optionId) ==
  v.t = "array" /\ \E i \in 1..Len(v.a) : v.a[i] = optionId

\* the elements of s at the positions in keep, in order (Array.prototype.filter)
FilterSeq(s, keep) ==
  LET F[i \in 0..Len(s)] ==
        IF i = 0 THEN <<>>
        ELSE IF i \in keep THEN Append(F[i - 1], s[i]) ELSE F[i - 1]
  IN F[Len(s)]

Range(s) == {s[i] : i \in 1..Len(s)}

(***************************************************************************)
(* Question / Option model                                                 *)
(***************************************************************************)
OptionNames == <<"oA", "oB", "oC", "oD">>
OptionIds == {OptionNames[k] : k \in 1..MaxOptions}
AllOptions == [k \in 1..MaxOptions |-> OptionNames[k]]

QuestionTypes == {"text", "number", "select", "multiselect", "date", "boolean"}

\* `q${(index + 1).toString().padStart(3, '0')}` for index + 1 = k < 10
newId(k) == <<"q001", "q002", "q003", "q004", "q005", "q006", "q007", "q008", "q009">>[k]

\* result of Array.prototype.find when nothing matches
NoQuestion == [id |-> None]

\* questions.find(q => q.id === id)
FindQuestion(questions, id) ==
  IF \E i \in 1..Len(questions) : questions[i].id = id
  THEN questions[CHOOSE i \in 1..Len(questions) :
                   /\ questions[i].id = id
                   /\ \A j \in 1..(i - 1) : questions[j].id # id]
  ELSE NoQuestion

(***************************************************************************)
(* State                                                                   *)
(***************************************************************************)
VARIABLES
  variant,      \* which FormPreview component of the repository is mounted
  currentForm,  \* FormContext state.currentForm, as loaded for the route id
  responses,    \* FormPreview answer map: question id -> current value
  errors,       \* FormPreview error map: question id -> message
  submitting,   \* FormPreview submitting flag
  request,      \* body of the saveResponse request in flight, if any
  stored,       \* response records held by the storage collaborator
  route,        \* "preview" while FormPreview is mounted, "home" after navigate('/')
  wsInput,      \* question list handed to the last reorganizeQuestions call
  wsOutput,     \* question list returned by the last reorganizeQuestions call
  ctxResponses, \* FormContext state.responses[formId] of the previewed form
  passes,       \* number of reorganizeQuestions calls made so far
  backend,      \* storage collaborator in use: "rest" (forms router) or "idb" (IndexedDB)
  formsTable,   \* form records held by the storage collaborator
  formData,     \* FormBuilder local state: name and working questions
  routeId,      \* FormBuilder useParams().id, None on the new-form route
  saving,       \* argument of the saveForm call in flight, if any
  toast,        \* last toast shown
  savedId,      \* value returned by the last completed saveForm call
  lastRequest,  \* last request handled by the forms router, with its reply status
  uuids,        \* number of form ids drawn so far (uuidv4, gen_random_uuid)
  deleting,     \* id passed to the IndexedDB deleteForm call in flight, if any
  now,          \* clock read by Date.now() / new Date()
  workbook,     \* sheets of the file written by the last exportToExcel call
  readBack,     \* outcome of the last readExcelFile call
  draft,        \* QuestionEditor newSubQuestion states: that of the editor of a saved
                \* question, then that of the editor nested in its sub-question form
  paramId,      \* useParams().id of FormPreview / FormResponses
  isLoading,    \* FormContext state.isLoading
  inflight,     \* calls of FormContext awaiting their fetch or database request
  saveCalls,    \* number of IndexedDB saveForm calls started
  updatesDone   \* number of IndexedDB saveForm calls that updated a form and returned

previewVars == <<variant, currentForm, responses, errors, submitting, request, stored, route,
                 ctxResponses>>
builderVars == <<wsInput, wsOutput, passes>>
storageVars == <<backend, formsTable, formData, routeId, saving, toast, savedId, lastRequest,
                 uuids, deleting>>
excelVars == <<workbook, readBack>>
editorVars == <<draft>>
ctxVars == <<paramId, isLoading, inflight>>
raceVars == <<saveCalls, updatesDone>>
extVars == <<excelVars, editorVars, ctxVars, raceVars>>
coreVars == <<previewVars, builderVars, storageVars, now>>

\* no file has been written and none has been read
NoWorkbook == <<>>
NotRead == [done |-> FALSE, rows |-> <<>>]
vars == <<variant, currentForm, responses, errors, submitting, request, stored, route,
          ctxResponses, wsInput, wsOutput, passes, backend, formsTable, formData, routeId,
          saving, toast, savedId, lastRequest, uuids, deleting, now, workbook, readBack, draft,
          paramId, isLoading, inflight, saveCalls, updatesDone>>

(***************************************************************************)
(* Stored forms opened in FormPreview                                      *)
(***************************************************************************)
Question(id, type, required, parentId, parentOptionId) ==
  [id |-> id, type |-> type, required |-> required,
   options |-> IF type \in {"select", "multiselect"} THEN AllOptions ELSE <<>>,
   parentId |-> parentId, parentOptionId |-> parentOptionId]

\* a parentId that resolves to no question of the form
DanglingId == "q404"

PreviewQuestions1 ==
  {Question(newId(1), ty, FALSE, None, None) : ty \in {"select", "multiselect"}}

PreviewParentRefs2 ==
  {<<None, None>>, <<DanglingId, OptionNames[1]>>} \cup ({newId(1)} \X OptionIds)

PreviewQuestions2 ==
  {Question(newId(2), ty, rq, pr[1], pr[2]) :
     ty \in {"select", "multiselect", "boolean"}, rq \in BOOLEAN, pr \in PreviewParentRefs2}

PreviewQuestions3 ==
  {Question(newId(3), ty, rq, pr[1], pr[2]) :
     ty \in {"text", "number"}, rq \in BOOLEAN, pr \in {newId(1), newId(2)} \X {OptionNames[1]}}

PreviewQuestionLists ==
  {<<q1, q2, q3>> : q1 \in PreviewQuestions1, q2 \in PreviewQuestions2, q3 \in PreviewQuestions3}

PreviewFormId == "f1"

PreviewForms ==
  {[id |-> PreviewFormId, version |-> 1, questions |-> qs] : qs \in PreviewQuestionLists}

QuestionIds(form) == {form.questions[i].id : i \in 1..Len(form.questions)}

(***************************************************************************)
(* Visibility evaluator (FormPreview.getVisibleQuestions)                  *)
(***************************************************************************)
\* mutant of isVisible: a multiselect parent unlocks its children with any array value
isVisible_AnyArray(form, resp, question) ==
  IF question.parentId = None THEN TRUE
  ELSE LET parentQuestion == FindQuestion(form.questions, question.parentId) IN
       IF parentQuestion = NoQuestion THEN FALSE
       ELSE LET parentResponse == resp[parentQuestion.id] IN
            IF parentQuestion.type = "select"
            THEN StrictEqualsId(parentResponse, question.parentOptionId)
            ELSE IF parentQuestion.type = "multiselect"
            THEN parentResponse.t = "array"
            ELSE FALSE

\* the filter callback of the first FormPreview
isVisible(form, resp, question) ==
  IF question.parentId = None THEN TRUE
  ELSE LET parentQuestion == FindQuestion(form.questions, question.parentId) IN
       IF parentQuestion = NoQuestion THEN FALSE
       ELSE LET parentResponse == resp[parentQuestion.id] IN
            IF parentQuestion.type = "select"
            THEN StrictEqualsId(parentResponse, question.parentOptionId)
            ELSE IF parentQuestion.type = "multiselect"
            THEN ArrayIncludesId(parentResponse, question.parentOptionId)
            ELSE FALSE

\* the filter callback of the second FormPreview
isVisibleV2(form, resp, question) ==
  IF question.parentId = None THEN TRUE
  ELSE LET parentQuestion == FindQuestion(form.questions, question.parentId) IN
       IF parentQuestion = NoQuestion THEN FALSE
       ELSE IF parentQuestion.type \notin {"select", "multiselect"} THEN FALSE
       ELSE LET parentResponse == resp[parentQuestion.id] IN
            IF parentQuestion.type = "select"
            THEN StrictEqualsId(parentResponse, question.parentOptionId)
            ELSE IF parentQuestion.type = "multiselect"
            THEN ArrayIncludesId(parentResponse, question.parentOptionId)
            ELSE FALSE

getVisibleQuestions(form, resp) ==
  FilterSeq(form.questions,
            {i \in 1..Len(form.questions) : isVisible(form, resp, form.questions[i])})

getVisibleQuestionsV2(form, resp) ==
  FilterSeq(form.questions,
            {i \in 1..Len(form.questions) : isVisibleV2(form, resp, form.questions[i])})

\* getVisibleQuestions of the mounted component
visibleQuestions(v, form, resp) ==
  IF v = 1 THEN getVisibleQuestions(form, resp) ELSE getVisibleQuestionsV2(form, resp)

(***************************************************************************)
(* Live entry (FormPreview.renderQuestionInput, handleInputChange)         *)
(***************************************************************************)
NoRequest == [formId |-> None]

\* what a controlled input shows for a stored value: responses[id] || ''
Displayed(v) == IF Truthy(v) THEN v ELSE Str("")

\* newValues of the checkbox onChange of a multiselect question
toggleOption(v, optionId) ==
  LET currentValues == IF Truthy(v) THEN v.a ELSE <<>> IN
  IF \E i \in 1..Len(currentValues) : currentValues[i] = optionId
  THEN Arr(FilterSeq(currentValues,
                     {i \in 1..Len(currentValues) : currentValues[i] # optionId}))
  ELSE Arr(Append(currentValues, optionId))

\* the values the input rendered for a question can pass to handleInputChange
inputValues(question, resp) ==
  LET cur == resp[question.id] IN
  CASE question.type \in {"text", "date"} ->
         {Str(""), Str("x")} \ {Displayed(cur)}
    [] question.type = "number" ->
         {Str(""), Num(0), Num(1)} \ {Displayed(cur)}
    [] question.type = "boolean" ->
         {Bool(TRUE), Bool(FALSE)} \ {cur}
    [] question.type = "select" ->
         ({Str("")} \cup {Str(o) : o \in Range(question.options)}) \ {Displayed(cur)}
    [] question.type = "multiselect" ->
         {toggleOption(cur, o) : o \in Range(question.options)}

\* the setResponses updater of the first FormPreview
updateResponses(form, prev, questionId, value) ==
  LET newResponses == [prev EXCEPT ![questionId] = value]
      question == FindQuestion(form.questions, questionId)
      subQuestions == {q \in Range(form.questions) : q.parentId = questionId}
      cleared == {subQ.id : subQ \in {q \in subQuestions : Truthy(newResponses[q.id])}}
  IN IF question # NoQuestion /\ question.type \in {"select", "multiselect"}
     THEN [id \in DOMAIN newResponses |->
             IF id \in cleared THEN Undefined ELSE newResponses[id]]
     ELSE newResponses

\* the setResponses updater of the second FormPreview
updateResponsesV2(form, prev, questionId, value) ==
  [prev EXCEPT ![questionId] = value]

\* delete newErrors[questionId], when errors[questionId] is set
clearError(errs, questionId) ==
  [id \in DOMAIN errs \ {questionId} |-> errs[id]]

\* Entry while a saveResponse request is in flight commutes with the completion of
\* the request (nothing after the await in handleSubmit reads responses or errors),
\* so it is ordered after the completion.
handleInputChange(questionId, value) ==
  /\ route = "preview"
  /\ ~isLoading
  /\ request = NoRequest
  /\ responses' = IF variant = 1
                  THEN updateResponses(currentForm, responses, questionId, value)
                  ELSE updateResponsesV2(currentForm, responses, questionId, value)
  /\ errors' = clearError(errors, questionId)
  /\ UNCHANGED <<variant, currentForm, submitting, request, stored, route, ctxResponses>>
  /\ UNCHANGED builderVars
  /\ UNCHANGED extVars
  /\ UNCHANGED <<storageVars, now>>

(***************************************************************************)
(* Response assembler (FormPreview.validateForm, handleSubmit)             *)
(***************************************************************************)
RequiredMessage == "Este campo es obligatorio"
SelectOneMessage == "Selecciona al menos una opcion"

\* mutant of validateForm: required is enforced over every question of the form
validateForm_AllQuestions(v, form, resp) ==
  LET missing == {q \in Range(form.questions) :
                    /\ q.required
                    /\ resp[q.id].t = "undefined" \/ resp[q.id] = Str("")}
      emptyArr == {q \in Range(form.questions) : q.required /\ resp[q.id] = Arr(<<>>)}
  IN [id \in {q.id : q \in missing \cup emptyArr} |->
        IF \E q \in emptyArr : q.id = id THEN SelectOneMessage ELSE RequiredMessage]

\* mutant of validateForm: validation stops at the first violation
validateForm_FirstOnly(v, form, resp) ==
  LET visible == visibleQuestions(v, form, resp)
      bad == {i \in 1..Len(visible) :
                /\ visible[i].required
                /\ \/ resp[visible[i].id].t = "undefined"
                   \/ resp[visible[i].id] = Str("")
                   \/ resp[visible[i].id] = Arr(<<>>)}
      first == {i \in bad : \A j \in bad : i <= j}
  IN [id \in {visible[i].id : i \in first} |->
        IF resp[id] = Arr(<<>>) THEN SelectOneMessage ELSE RequiredMessage]

\* newErrors of validateForm
validateForm(v, form, resp) ==
  LET visible == Range(visibleQuestions(v, form, resp))
      missing == {q \in visible :
                    /\ q.required
                    /\ resp[q.id].t = "undefined" \/ resp[q.id] = Str("")}
      emptyArr == {q \in visible : q.required /\ resp[q.id] = Arr(<<>>)}
  IN [id \in {q.id : q \in missing \cup emptyArr} |->
        IF \E q \in emptyArr : q.id = id THEN SelectOneMessage ELSE RequiredMessage]

\* mutant of isValid: the result of validateForm is ignored
isValid_Always(newErrors) == TRUE

\* the result of validateForm: Object.keys(newErrors).length === 0
isValid(newErrors) == DOMAIN newErrors = {}

\* Object.entries(responses): the keys that hold a value
entries(resp) == {id \in DOMAIN resp : resp[id] # Undefined}

\* questionResponses of the first FormPreview: entries of visible questions of the form
questionResponses(form, resp) ==
  {[questionId |-> id, value |-> resp[id]] :
     id \in {k \in entries(resp) :
               LET question == FindQuestion(form.questions, k) IN
               /\ question # NoQuestion
               /\ question \in Range(getVisibleQuestions(form, resp))}}

\* questionResponses of the second FormPreview: every entry
questionResponsesV2(form, resp) ==
  {[questionId |-> id, value |-> resp[id]] : id \in entries(resp)}

\* mutant of formResponse: the response is bound to version 1, not to the form's version
formResponse_FirstVersion(v, id, form, resp, newResponseId, createdAt) ==
  [id |-> newResponseId,
   formId |-> id,
   formVersion |-> 1,
   responses |-> IF v = 1 THEN questionResponses(form, resp)
                 ELSE questionResponsesV2(form, resp),
   createdAt |-> createdAt,
   updatedOffline |-> FALSE]

\* formResponse of handleSubmit, completed by saveResponse (id, createdAt)
formResponse(v, id, form, resp, newResponseId, createdAt) ==
  [id |-> newResponseId,
   formId |-> id,
   formVersion |-> form.version,
   responses |-> IF v = 1 THEN questionResponses(form, resp)
                 ELSE questionResponsesV2(form, resp),
   createdAt |-> createdAt,
   updatedOffline |-> FALSE]

\* the form is on screen (no spinner): !(isLoading || !currentForm)
formOnScreen ==
  /\ route = "preview"
  /\ ~isLoading
  /\ currentForm.id # None

\* handleSubmit, up to the fetch of saveResponse (which dispatches SET_LOADING true)
handleSubmit ==
  /\ formOnScreen
  /\ paramId # None
  /\ ~submitting
  /\ LET newErrors == validateForm(variant, currentForm, responses)
     IN /\ errors' = newErrors
        /\ IF ~isValid(newErrors)
           THEN UNCHANGED <<submitting, request, isLoading>>
           ELSE /\ submitting' = TRUE
                /\ isLoading' = TRUE
                /\ request' = formResponse(variant, paramId, currentForm, responses,
                                           Len(stored) + 1, now)
  /\ UNCHANGED <<variant, currentForm, responses, stored, route, ctxResponses>>
  /\ UNCHANGED builderVars
  /\ UNCHANGED <<excelVars, editorVars, raceVars, paramId, inflight>>
  /\ UNCHANGED <<storageVars, now>>

\* the storage collaborator accepts the request: ADD_RESPONSE, navigate('/')
saveResponseOk ==
  /\ request # NoRequest
  /\ stored' = Append(stored, request)
  /\ ctxResponses' = IF request.formId = PreviewFormId THEN Append(ctxResponses, request)
                     ELSE ctxResponses
  /\ request' = NoRequest
  /\ submitting' = FALSE
  /\ isLoading' = FALSE
  /\ route' = "home"
  /\ UNCHANGED <<variant, currentForm, responses, errors>>
  /\ UNCHANGED builderVars
  /\ UNCHANGED <<excelVars, editorVars, raceVars, paramId, inflight>>
  /\ UNCHANGED <<storageVars, now>>

\* the storage collaborator rejects the request: saveResponse throws
saveResponseFail ==
  /\ request # NoRequest
  /\ request' = NoRequest
  /\ submitting' = FALSE
  /\ isLoading' = FALSE
  /\ UNCHANGED <<variant, currentForm, responses, errors, stored, route, ctxResponses>>
  /\ UNCHANGED builderVars
  /\ UNCHANGED <<excelVars, editorVars, raceVars, paramId, inflight>>
  /\ UNCHANGED <<storageVars, now>>

\* no saveForm call in flight
NoSaving == [name |-> None]
\* no request handled by the forms router yet
NoHttp == [method |-> None]
\* FormBuilder initialFormState
initialFormState == [name |-> "", questions |-> <<>>]

\* the builder save path and the form storage at rest, nothing stored
\* no file written or read, no sub-question form open, the route of the one
\* previewed form, no FormContext call pending
ExtIdle ==
  /\ workbook = NoWorkbook
  /\ readBack = NotRead
  /\ draft = <<>>
  /\ paramId = PreviewFormId
  /\ isLoading = FALSE
  /\ inflight = {}
  /\ saveCalls = 0
  /\ updatesDone = 0

StorageIdle ==
  /\ backend = "rest"
  /\ formsTable = {}
  /\ formData = initialFormState
  /\ routeId = None
  /\ saving = NoSaving
  /\ toast = None
  /\ savedId = None
  /\ lastRequest = NoHttp
  /\ uuids = 0
  /\ deleting = None
  /\ now = 0

EmptyAnswers == [id \in {newId(1), newId(2), newId(3)} |-> Undefined]
EmptyErrors == [id \in {} |-> RequiredMessage]

InitPreview ==
  /\ variant \in {1, 2}
  /\ currentForm \in PreviewForms
  /\ responses = EmptyAnswers
  /\ errors = EmptyErrors
  /\ submitting = FALSE
  /\ request = NoRequest
  /\ stored = <<>>
  /\ ctxResponses = <<>>
  /\ route = "preview"
  /\ wsInput = <<>>
  /\ wsOutput = <<>>
  /\ passes = 0
  /\ ExtIdle
  /\ StorageIdle

inputChange ==
  \E question \in Range(visibleQuestions(variant, currentForm, responses)) :
    \E value \in inputValues(question, responses) :
      handleInputChange(question.id, value)

NextPreview ==
  \/ inputChange
  \/ handleSubmit
  \/ saveResponseOk
  \/ saveResponseFail

SpecPreview == InitPreview /\ [][NextPreview]_vars

(***************************************************************************)
(* Tree linearizer (FormBuilder.reorganizeQuestions)                       *)
(***************************************************************************)
\* ids of the working set: a loaded form whose first question was deleted (q002,
\* q003), followed by questions added in the session (uuidv4)
WorkingIds == <<"q002", "q003", "u1", "u2">>
WorkingTexts == <<"t1", "t2", "t3", "t4">>
WorkingIdSet == Range(WorkingIds)

\* options of a working question; <<>> also stands for a question without options
OptionLists == {<<>>, AllOptions, <<OptionNames[MaxOptions]>>}

WorkingParentRefs ==
  {<<None, None>>, <<DanglingId, OptionNames[1]>>} \cup (WorkingIdSet \X OptionIds)

WorkingQuestion(i, options, parentId, parentOptionId) ==
  [id |-> WorkingIds[i], text |-> WorkingTexts[i], options |-> options,
   parentId |-> parentId, parentOptionId |-> parentOptionId]

WorkingQuestionsAt(i) ==
  {WorkingQuestion(i, os, pr[1], pr[2]) :
     os \in OptionLists,
     pr \in IF i = 1 THEN {<<None, None>>} ELSE WorkingParentRefs}

WorkingSets ==
  {<<q1, q2, q3, q4>> : q1 \in WorkingQuestionsAt(1), q2 \in WorkingQuestionsAt(2),
                        q3 \in WorkingQuestionsAt(3), q4 \in WorkingQuestionsAt(4)}

\* mutant of mainQuestions: every question starts a hierarchy
mainQuestions_All(questions) == questions

\* questions.filter(q => !q.parentId)
mainQuestions(questions) ==
  FilterSeq(questions, {i \in 1..Len(questions) : questions[i].parentId = None})

\* mutant of questionsByParent: sub-questions are prepended (unshift) instead of pushed
questionsByParent_Reversed(questions, parentId) ==
  LET subs == FilterSeq(questions, {i \in 1..Len(questions) :
                          questions[i].parentId # None /\ questions[i].parentId = parentId})
  IN [i \in 1..Len(subs) |-> subs[Len(subs) + 1 - i]]

\* questionsByParent.get(parentId) || []: the sub-questions of a parent, in input order
questionsByParent(questions, parentId) ==
  FilterSeq(questions, {i \in 1..Len(questions) :
                          questions[i].parentId # None /\ questions[i].parentId = parentId})

\* mutant of processQuestionHierarchy: the sub-questions are emitted before the question
RECURSIVE processQuestionHierarchy_PostOrder(_, _)
processQuestionHierarchy_PostOrder(questions, question) ==
  LET optionSubQuestions(optionId) ==
        LET subs == FilterSeq(questions, {i \in 1..Len(questions) :
                       questions[i].parentId # None /\ questions[i].parentId = question.id})
        IN FilterSeq(subs, {i \in 1..Len(subs) : subs[i].parentOptionId = optionId})
      hierarchies(subs) ==
        LET H[i \in 0..Len(subs)] ==
              IF i = 0 THEN <<>>
              ELSE H[i - 1] \o processQuestionHierarchy_PostOrder(questions, subs[i])
        IN H[Len(subs)]
      perOption[k \in 0..Len(question.options)] ==
        IF k = 0 THEN <<>>
        ELSE perOption[k - 1] \o hierarchies(optionSubQuestions(question.options[k]))
  IN perOption[Len(question.options)] \o <<question>>

\* mutant of processQuestionHierarchy: the sub-questions keyed to an option of the
\* question are emitted in input order, not grouped by option
RECURSIVE processQuestionHierarchy_InputOrder(_, _)
processQuestionHierarchy_InputOrder(questions, question) ==
  LET subs == FilterSeq(questions, {i \in 1..Len(questions) :
                  /\ questions[i].parentId # None
                  /\ questions[i].parentId = question.id
                  /\ questions[i].parentOptionId \in Range(question.options)})
      H[i \in 0..Len(subs)] ==
        IF i = 0 THEN <<>>
        ELSE H[i - 1] \o processQuestionHierarchy_InputOrder(questions, subs[i])
  IN <<question>> \o H[Len(subs)]

RECURSIVE processQuestionHierarchy(_, _)
processQuestionHierarchy(questions, question) ==
  LET optionSubQuestions(optionId) ==
        LET subs == questionsByParent(questions, question.id) IN
        FilterSeq(subs, {i \in 1..Len(subs) : subs[i].parentOptionId = optionId})
      hierarchies(subs) ==
        LET H[i \in 0..Len(subs)] ==
              IF i = 0 THEN <<>>
              ELSE H[i - 1] \o processQuestionHierarchy(questions, subs[i])
        IN H[Len(subs)]
      perOption[k \in 0..Len(question.options)] ==
        IF k = 0 THEN <<>>
        ELSE perOption[k - 1] \o hierarchies(optionSubQuestions(question.options[k]))
  IN <<question>> \o perOption[Len(question.options)]

\* mainQuestions.flatMap(q => processQuestionHierarchy(q))
organizedQuestions(questions) ==
  LET mains == mainQuestions(questions)
      O[i \in 0..Len(mains)] ==
        IF i = 0 THEN <<>>
        ELSE O[i - 1] \o processQuestionHierarchy(questions, mains[i])
  IN O[Len(mains)]

\* idMap.get(oldId) while the question at position index is being mapped
idMapGet(organized, index, oldId) ==
  LET set == {j \in 1..index : organized[j].id = oldId} IN
  IF set = {} THEN None
  ELSE newId(CHOOSE j \in set : \A k \in set : k <= j)

\* mutant of reorganizeQuestions: the ids are renumbered, the parentId is copied
reorganizeQuestions_ParentCopied(questions) ==
  LET organized == organizedQuestions(questions) IN
  [index \in 1..Len(organized) |-> [organized[index] EXCEPT !.id = newId(index)]]

reorganizeQuestions(questions) ==
  LET organized == organizedQuestions(questions) IN
  [index \in 1..Len(organized) |->
     [organized[index] EXCEPT
        !.id = newId(index),
        !.parentId = IF organized[index].parentId # None
                     THEN idMapGet(organized, index, organized[index].parentId)
                     ELSE None]]

\* one linearizer pass: over the working set first, then over its own output
reorganize ==
  /\ passes < MaxPasses
  /\ LET questions == IF passes = 0 THEN wsInput ELSE wsOutput IN
       /\ wsInput' = questions
       /\ wsOutput' = reorganizeQuestions(questions)
  /\ passes' = passes + 1
  /\ UNCHANGED previewVars
  /\ UNCHANGED extVars
  /\ UNCHANGED <<storageVars, now>>

InitBuilder ==
  /\ wsInput \in WorkingSets
  /\ wsOutput = <<>>
  /\ passes = 0
  /\ ExtIdle
  /\ variant = 1
  /\ currentForm = [id |-> PreviewFormId, version |-> 1, questions |-> <<>>]
  /\ responses = EmptyAnswers
  /\ errors = EmptyErrors
  /\ submitting = FALSE
  /\ request = NoRequest
  /\ stored = <<>>
  /\ ctxResponses = <<>>
  /\ route = "builder"
  /\ StorageIdle

NextBuilder == reorganize

SpecBuilder == InitBuilder /\ [][NextBuilder]_vars

(***************************************************************************)
(* Properties of the visibility evaluator and the response assembler       *)
(***************************************************************************)
\* the questions of the form whose id is id
questionsWithId(form, id) == {q \in Range(form.questions) : q.id = id}

\* the parent's current value selects the child's parentOptionId
selects(form, resp, q) ==
  \E p \in questionsWithId(form, q.parentId) :
    \/ p.type = "select" /\ resp[p.id] = Str(q.parentOptionId)
    \/ /\ p.type = "multiselect"
       /\ resp[p.id].t = "array"
       /\ q.parentOptionId \in Range(resp[p.id].a)

\* live as the evaluator contract states it for one question: a root, or a child
\* whose parent's current value selects it
live(form, resp, q) == q.parentId = None \/ selects(form, resp, q)

\* a value that validation treats as absent
unanswered(v) == v = Undefined \/ v = Str("") \/ v = Arr(<<>>)

\* the live required questions that have no answer
missingRequired(form, resp) ==
  {q \in Range(form.questions) : live(form, resp, q) /\ q.required /\ unanswered(resp[q.id])}

\* C1: getVisibleQuestions returns exactly the roots, the children of a select parent
\* whose value equals their parentOptionId and the children of a multiselect parent
\* whose value is an array containing their parentOptionId; a child of a parent of
\* another type, or of no question of the form, is never returned.
C1_VisibleIffSelected ==
  \A q \in Range(currentForm.questions) :
    q \in Range(visibleQuestions(variant, currentForm, responses))
      <=> live(currentForm, responses, q)

C1_Witness ==
  \E c \in Range(currentForm.questions), d \in Range(currentForm.questions) :
    /\ c.parentId # None
    /\ \E p \in questionsWithId(currentForm, c.parentId) : p.type = "multiselect"
    /\ c \in Range(visibleQuestions(variant, currentForm, responses))
    /\ d.parentId # None
    /\ \/ d.parentId = DanglingId
       \/ \E p \in questionsWithId(currentForm, d.parentId) :
            p.type = "boolean" /\ responses[p.id] = Bool(TRUE)
    /\ d \notin Range(visibleQuestions(variant, currentForm, responses))

\* C2: visibility is transitive: the parent of every question of the live set is in
\* the live set.
C2_VisibilityTransitive ==
  \A q \in Range(visibleQuestions(variant, currentForm, responses)) :
    q.parentId # None =>
      \E p \in Range(visibleQuestions(variant, currentForm, responses)) : p.id = q.parentId

\* C3: a required child with no answer whose parent's value does not select it gets
\* no error from validateForm, and handleSubmit calls saveResponse when no live
\* required question is missing.
C3_HiddenRequiredDoesNotBlock ==
  [][handleSubmit =>
       /\ \A q \in Range(currentForm.questions) :
            (/\ q.parentId # None
             /\ q.required
             /\ unanswered(responses[q.id])
             /\ ~selects(currentForm, responses, q)) => q.id \notin DOMAIN errors'
       /\ missingRequired(currentForm, responses) = {} =>
            /\ request' # NoRequest
            /\ request'.formId = PreviewFormId]_vars

C3_Witness ==
  /\ request # NoRequest
  /\ \E q \in Range(currentForm.questions) :
       /\ q.parentId # None
       /\ q.required
       /\ responses[q.id] = Undefined
       /\ \E p \in questionsWithId(currentForm, q.parentId) :
            p.type \in {"select", "multiselect"} /\ Truthy(responses[p.id])
       /\ ~selects(currentForm, responses, q)

\* C4: a stored FormResponse holds a QuestionResponse only for questions that are
\* live at submit time, in every FormPreview variant.
C4_StoredOnlyLive ==
  \A i \in 1..Len(stored) :
    \A qr \in stored[i].responses :
      \E q \in questionsWithId(currentForm, qr.questionId) : live(currentForm, responses, q)

\* C5: the ids of the error map computed by validateForm are exactly the live required
\* questions whose value is absent or an empty array.
C5_AllViolationsReported ==
  [][handleSubmit =>
       DOMAIN errors' = {q.id : q \in missingRequired(currentForm, responses)}]_vars

C5_Witness ==
  /\ Cardinality(DOMAIN errors) >= 2
  /\ DOMAIN errors = {q.id : q \in missingRequired(currentForm, responses)}
  /\ \E q \in Range(currentForm.questions) : q.id \notin DOMAIN errors

\* C6: when a live required question is unanswered at submit time, handleSubmit does
\* not call saveResponse, storage and the client's responses are unchanged, and the
\* error map names the question.
C6_InvalidNeverSaved ==
  [][(handleSubmit /\ missingRequired(currentForm, responses) # {}) =>
       /\ request' = NoRequest
       /\ ~submitting'
       /\ stored' = stored
       /\ ctxResponses' = ctxResponses
       /\ \A q \in missingRequired(currentForm, responses) : q.id \in DOMAIN errors']_vars

C6_Witness ==
  /\ \E q \in missingRequired(currentForm, responses) :
       q.id \in DOMAIN errors /\ responses[q.id] = Str("")
  /\ request = NoRequest
  /\ stored = <<>>

\* C7: in the first FormPreview, when an input change makes a live child not live,
\* the answer map holds no value for that child afterwards.
C7_HiddenChildDiscarded ==
  [][\A q \in Range(currentForm.questions) :
       (/\ variant = 1
        /\ q.parentId # None
        /\ live(currentForm, responses, q)
        /\ ~live(currentForm, responses', q)) => responses'[q.id] = Undefined]_vars

(***************************************************************************)
(* Properties of the tree linearizer                                       *)
(***************************************************************************)
\* position in the input of the last pass of the question with the given text
inputPos(text) == CHOOSE i \in 1..Len(wsInput) : wsInput[i].text = text

\* the question as it was given to the last pass
asGiven(q) == wsInput[inputPos(q.text)]

\* positions of the output questions whose parentId is the id of the question at i
childPositions(out, i) ==
  {j \in 1..Len(out) : out[j].parentId # None /\ out[j].parentId = out[i].id}

\* positions of the descendants of the question at i, through the output parentIds
descendantPositions(out, i) ==
  LET D[k \in 0..Len(out)] ==
        IF k = 0 THEN childPositions(out, i)
        ELSE D[k - 1] \cup UNION {childPositions(out, j) : j \in D[k - 1]}
  IN D[Len(out)]

\* index of an option id in the options of a question
optionIndex(q, optionId) == CHOOSE k \in 1..Len(q.options) : q.options[k] = optionId

\* C8: in the sequence returned by reorganizeQuestions every question that has a
\* parentId stands strictly after the question whose id is that parentId.
C8_ParentPrecedesChild ==
  passes >= 1 =>
    \A i \in 1..Len(wsOutput) :
      (wsOutput[i].parentId # None \/ asGiven(wsOutput[i]).parentId # None) =>
        \E j \in 1..(i - 1) : wsOutput[j].id = wsOutput[i].parentId

C8_Witness ==
  /\ passes = 1
  /\ \E i \in 1..Len(wsOutput), j \in 1..Len(wsOutput) :
       /\ wsOutput[i].parentId = wsOutput[j].id
       /\ j < i
       /\ inputPos(wsOutput[i].text) < inputPos(wsOutput[j].text)
       /\ childPositions(wsOutput, i) # {}

\* C9: reorganizeQuestions applied to its own output returns that output unchanged:
\* same questions, same order, same ids, same parentId and parentOptionId.
C9_Idempotent == passes >= 2 => wsOutput = wsInput

C9_Witness ==
  /\ passes = 2
  /\ Len(wsOutput) = 4
  /\ \E i \in 1..Len(wsOutput) : Cardinality(childPositions(wsOutput, i)) = 2
  /\ \E i \in 1..Len(wsOutput) :
       wsOutput[i].parentId # None /\ childPositions(wsOutput, i) # {}

\* C10: the output is a pre-order, option-grouped traversal: roots keep their input
\* order; every question is immediately followed by its descendants; the children of a
\* question follow the order of the parent's options, and children of the same option
\* keep their input order.
C10_PreOrderOptionGrouped ==
  passes >= 1 =>
    /\ Len(mainQuestions(wsOutput)) = Len(mainQuestions(wsInput))
    /\ \A i \in 1..Len(wsOutput), j \in 1..Len(wsOutput) :
         (i < j /\ wsOutput[i].parentId = None /\ wsOutput[j].parentId = None) =>
           inputPos(wsOutput[i].text) < inputPos(wsOutput[j].text)
    /\ \A i \in 1..Len(wsOutput) :
         descendantPositions(wsOutput, i) =
           (i + 1)..(i + Cardinality(descendantPositions(wsOutput, i)))
    /\ \A p \in 1..Len(wsOutput) :
         \A i \in childPositions(wsOutput, p), j \in childPositions(wsOutput, p) :
           i < j =>
             /\ wsOutput[i].parentOptionId \in Range(wsOutput[p].options)
             /\ wsOutput[j].parentOptionId \in Range(wsOutput[p].options)
             /\ optionIndex(wsOutput[p], wsOutput[i].parentOptionId)
                  <= optionIndex(wsOutput[p], wsOutput[j].parentOptionId)
             /\ wsOutput[i].parentOptionId = wsOutput[j].parentOptionId =>
                  inputPos(wsOutput[i].text) < inputPos(wsOutput[j].text)

C10_Witness ==
  /\ passes = 1
  /\ \E p \in 1..Len(wsOutput) :
       \E i \in childPositions(wsOutput, p), j \in childPositions(wsOutput, p) :
         /\ i < j
         /\ wsOutput[i].parentOptionId # wsOutput[j].parentOptionId
         /\ inputPos(wsOutput[j].text) < inputPos(wsOutput[i].text)
         /\ \E g \in childPositions(wsOutput, i) : i < g /\ g < j

(***************************************************************************)
(* Form storage: forms router of the server, IndexedDB FormContext         *)
(***************************************************************************)
\* number of form ids drawn in one run
MaxUuids == 2

UuidNames == <<"g1", "g2", "g3", "g4", "g5", "g6">>
\* the k-th id drawn from uuidv4() / gen_random_uuid()
uuidv4(k) == UuidNames[k]

Roles == {"admin", "user"}

FormRecord(id, name, questions, version) ==
  [id |-> id, name |-> name, questions |-> questions, version |-> version]

\* currentForm: null
NoForm == [id |-> None]

\* SELECT * FROM forms WHERE id = $1, db.get('forms', id)
formRows(table, id) == {f \in table : f.id = id}

\* mutant of isAdmin: the role of the caller is not looked at
isAdmin_Anyone(role) ==
  role \in Roles

\* req.user.role !== 'admin' is answered 403
isAdmin(role) ==
  role = "admin"

\* INSERT INTO forms (...) VALUES ($1, $2, $3, NOW(), NOW(), 1) RETURNING id
insertForm(table, newFormId, body) ==
  table \cup {FormRecord(newFormId, body.name, body.questions, 1)}

\* UPDATE forms SET name = $1, ..., version = version + 1 WHERE id = $4
updateForm(table, id, body) ==
  {IF f.id = id THEN FormRecord(f.id, body.name, body.questions, f.version + 1) ELSE f :
     f \in table}

\* DELETE FROM forms WHERE id = $1, db.delete('forms', id)
deleteFormRow(table, id) == {f \in table : f.id # id}

\* DELETE FROM responses WHERE form_id = $1 (and ON DELETE CASCADE of responses.form_id),
\* the by-form-id cursor loop of the IndexedDB deleteForm
deleteResponsesOf(resps, id) ==
  FilterSeq(resps, {i \in 1..Len(resps) : resps[i].formId # id})

\* router.post('/'): status, JSON body of the reply, forms table after the request
routerPost(role, table, body, newFormId) ==
  IF ~isAdmin(role)
  THEN [status |-> 403, body |-> [message |-> "Not authorized"], forms |-> table]
  ELSE [status |-> 200, body |-> [id |-> newFormId],
        forms |-> insertForm(table, newFormId, body)]

\* router.put('/:id')
routerPut(role, table, id, body) ==
  IF ~isAdmin(role)
  THEN [status |-> 403, body |-> [message |-> "Not authorized"], forms |-> table]
  ELSE [status |-> 200, body |-> [message |-> "Form updated"],
        forms |-> updateForm(table, id, body)]

\* savedForm.id of a parsed JSON reply: undefined when the reply has no id property
jsonId(body) == IF "id" \in DOMAIN body THEN body.id ELSE None

\* FormContext.saveForm (REST): PUT /forms/:id when formData.id is set, else POST /forms
saveFormMethod(data) == IF data.id # None THEN "PUT" ELSE "POST"

\* db.put('forms', form), tx.store.put(form): insert or overwrite by key
dbPut(table, record) == {f \in table : f.id # record.id} \cup {record}

\* FormContext.saveForm (IndexedDB): ok is FALSE when 'Form not found' is thrown
idbSaveForm(table, data, newFormId) ==
  IF data.id # None
  THEN LET existing == formRows(table, data.id) IN
       IF existing = {}
       THEN [ok |-> FALSE, form |-> NoForm, forms |-> table]
       ELSE LET existingForm == CHOOSE f \in existing : TRUE
                form == FormRecord(data.id, data.name, data.questions,
                                   existingForm.version + 1)
            IN [ok |-> TRUE, form |-> form, forms |-> dbPut(table, form)]
  ELSE LET form == FormRecord(newFormId, data.name, data.questions, 1)
       IN [ok |-> TRUE, form |-> form, forms |-> dbPut(table, form)]

(***************************************************************************)
(* Save path of the builder (FormBuilder.handleSaveForm)                   *)
(***************************************************************************)
NameRequiredToast == "El nombre del formulario es obligatorio"
FormNotFoundToast == "El formulario no se encuentra"
FormSavedToast == "Formulario guardado correctamente"
SaveErrorToast == "Error al guardar el formulario"

\* String.prototype.trim over the strings of the model
trim(s) == IF s \in {"", " "} THEN "" ELSE s

\* formData.questions.filter(q => q.text.trim() !== '').map(q => ({...q, id: q.id || uuidv4()}))
\* mutant of validQuestions: questions with blank text are kept
validQuestions_All(questions, newQuestionId) ==
  [i \in 1..Len(questions) |->
     [questions[i] EXCEPT !.id = IF questions[i].id # None THEN questions[i].id
                                 ELSE newQuestionId]]

validQuestions(questions, newQuestionId) ==
  LET kept == FilterSeq(questions, {i \in 1..Len(questions) : trim(questions[i].text) # ""})
  IN [i \in 1..Len(kept) |->
        [kept[i] EXCEPT !.id = IF kept[i].id # None THEN kept[i].id ELSE newQuestionId]]

\* formToSave of handleSaveForm
formToSave(data, id, newFormId) ==
  [name |-> data.name,
   questions |-> reorganizeQuestions(validQuestions(data.questions, newFormId)),
   id |-> IF id # None THEN id ELSE newFormId]

\* handleSaveForm up to the await of saveForm; the save button is disabled while a
\* saveForm call is in flight (isLoading)
handleSaveForm ==
  /\ route = "builder"
  /\ saving = NoSaving
  /\ IF trim(formData.name) = ""
     THEN /\ toast' = NameRequiredToast
          /\ UNCHANGED <<route, saving, uuids>>
     ELSE IF routeId # None /\ currentForm = NoForm
     THEN /\ toast' = FormNotFoundToast
          /\ route' = "home"
          /\ UNCHANGED <<saving, uuids>>
     ELSE /\ routeId = None => uuids < MaxUuids
          /\ saving' = formToSave(formData, routeId, uuidv4(uuids + 1))
          /\ uuids' = IF routeId = None THEN uuids + 1 ELSE uuids
          /\ UNCHANGED <<toast, route>>
  /\ UNCHANGED <<backend, formsTable, formData, routeId, savedId, lastRequest, deleting,
                 currentForm, now>>
  /\ UNCHANGED <<variant, responses, errors, submitting, request, stored, ctxResponses>>
  /\ UNCHANGED builderVars
  /\ UNCHANGED extVars

\* handleSaveForm after saveForm resolved with savedForm (SET_CURRENT_FORM included)
saveFormResolved(savedForm, returnedId) ==
  /\ currentForm' = savedForm
  /\ savedId' = returnedId
  /\ toast' = FormSavedToast
  /\ formData' = IF routeId = None THEN initialFormState ELSE formData
  /\ route' = "preview"
  /\ saving' = NoSaving

\* handleSaveForm after saveForm threw
saveFormRejected ==
  /\ toast' = SaveErrorToast
  /\ saving' = NoSaving
  /\ UNCHANGED <<currentForm, savedId, formData, route>>

\* the request of the REST saveForm is answered by the forms router
restSaveForm ==
  /\ backend = "rest"
  /\ saving # NoSaving
  /\ \E role \in Roles :
       LET method == saveFormMethod(saving)
           newFormId == IF uuids < MaxUuids THEN uuidv4(uuids + 1) ELSE None
           reply == IF method = "PUT"
                    THEN routerPut(role, formsTable, saving.id, saving)
                    ELSE routerPost(role, formsTable, saving, newFormId)
       IN /\ method = "POST" => uuids < MaxUuids
          /\ formsTable' = reply.forms
          /\ lastRequest' = [method |-> method, role |-> role, status |-> reply.status]
          /\ uuids' = IF method = "POST" /\ reply.status = 200 THEN uuids + 1 ELSE uuids
          /\ IF reply.status = 200
             THEN saveFormResolved(reply.body, jsonId(reply.body))
             ELSE saveFormRejected
  /\ UNCHANGED <<backend, routeId, deleting, now>>
  /\ UNCHANGED <<variant, responses, errors, submitting, request, stored, ctxResponses>>
  /\ UNCHANGED builderVars
  /\ UNCHANGED extVars

\* the IndexedDB saveForm runs to its end
idbSaveFormCall ==
  /\ backend = "idb"
  /\ saving # NoSaving
  /\ saving.id = None => uuids < MaxUuids
  /\ LET newFormId == IF uuids < MaxUuids THEN uuidv4(uuids + 1) ELSE None
         result == idbSaveForm(formsTable, saving, newFormId)
     IN /\ formsTable' = result.forms
        /\ uuids' = IF saving.id = None THEN uuids + 1 ELSE uuids
        /\ IF result.ok
           THEN saveFormResolved(result.form, result.form.id)
           ELSE saveFormRejected
  /\ UNCHANGED <<backend, routeId, lastRequest, deleting, now>>
  /\ UNCHANGED <<variant, responses, errors, submitting, request, stored, ctxResponses>>
  /\ UNCHANGED builderVars
  /\ UNCHANGED extVars

\* the storage collaborator fails: fetch rejects, the router answers 500, db.put throws
saveFormFails ==
  /\ saving # NoSaving
  /\ saveFormRejected
  /\ UNCHANGED <<backend, formsTable, routeId, lastRequest, uuids, deleting, now>>
  /\ UNCHANGED <<variant, responses, errors, submitting, request, stored, ctxResponses>>
  /\ UNCHANGED builderVars
  /\ UNCHANGED extVars

\* working sets of the builder at save time
SaveKinds ==
  {<<"text", <<>>>>, <<"select", AllOptions>>, <<"select", <<>>>>, <<"multiselect", <<>>>>}

SaveQuestion(i, text, kind, parentId, parentOptionId) ==
  [id |-> WorkingIds[i], text |-> text, type |-> kind[1], options |-> kind[2],
   parentId |-> parentId, parentOptionId |-> parentOptionId]

SaveQuestions1 ==
  {SaveQuestion(1, tx, kd, None, po) :
     tx \in {" ", WorkingTexts[1]},
     kd \in SaveKinds \ {<<"multiselect", <<>>>>},
     po \in {None, OptionNames[1]}}

SaveParentRefs2 ==
  {<<None, None>>, <<DanglingId, OptionNames[1]>>, <<WorkingIds[1], None>>,
   <<WorkingIds[2], OptionNames[1]>>, <<WorkingIds[3], OptionNames[1]>>}
    \cup ({WorkingIds[1]} \X OptionIds)

SaveQuestions2 ==
  {SaveQuestion(2, tx, kd, pr[1], pr[2]) :
     tx \in {"", WorkingTexts[2]}, kd \in SaveKinds, pr \in SaveParentRefs2}

SaveQuestions3 ==
  {SaveQuestion(3, WorkingTexts[3], kd, pr[1], pr[2]) :
     kd \in {<<"text", <<>>>>, <<"select", AllOptions>>},
     pr \in {<<None, None>>} \cup ({WorkingIds[1], WorkingIds[2]} \X OptionIds)}

SaveWorkingSets ==
  {<<q1, q2, q3>> : q1 \in SaveQuestions1, q2 \in SaveQuestions2, q3 \in SaveQuestions3}

\* the form persisted before the builder session
PriorQuestions ==
  <<[id |-> newId(1), text |-> "t0", type |-> "text", options |-> <<>>,
     parentId |-> None, parentOptionId |-> None]>>
PriorForm == FormRecord(PreviewFormId, "n0", PriorQuestions, 1)

InitSave ==
  /\ backend \in {"rest", "idb"}
  /\ formsTable = {PriorForm}
  /\ routeId \in {None, PreviewFormId}
  /\ currentForm \in IF routeId = None THEN {NoForm} ELSE {NoForm, PriorForm}
  /\ formData \in [name : {" ", "n1"}, questions : SaveWorkingSets]
  /\ saving = NoSaving
  /\ toast = None
  /\ savedId = None
  /\ lastRequest = NoHttp
  /\ uuids = 0
  /\ deleting = None
  /\ now = 0
  /\ route = "builder"
  /\ variant = 1
  /\ responses = EmptyAnswers
  /\ errors = EmptyErrors
  /\ submitting = FALSE
  /\ request = NoRequest
  /\ stored = <<>>
  /\ ctxResponses = <<>>
  /\ wsInput = <<>>
  /\ wsOutput = <<>>
  /\ passes = 0
  /\ ExtIdle

NextSave ==
  \/ handleSaveForm
  \/ restSaveForm
  \/ idbSaveFormCall
  \/ saveFormFails

SpecSave == InitSave /\ [][NextSave]_vars

(***************************************************************************)
(* Requests to the forms router (server/routes/forms.js)                   *)
(***************************************************************************)
\* highest version a stored form reaches in one run
MaxVersion == 3

FormWrites == {"POST", "PUT", "DELETE"}

\* a response stored before the run, given to the persisted form
PriorResponse ==
  [id |-> "r0", formId |-> PreviewFormId, formVersion |-> 1,
   responses |-> {[questionId |-> newId(1), value |-> Str("x")]},
   createdAt |-> 0, updatedOffline |-> FALSE]

\* ids a request or a call can name: the persisted form, the ids drawn so far, an
\* id storage never held
KnownFormIds == {PreviewFormId, DanglingId} \cup {uuidv4(k) : k \in 1..uuids}

\* req.body of a form write
FormBodies == {[name |-> nm, questions |-> PriorQuestions] : nm \in {"n1", "n2"}}

\* router.get('/'): any authenticated caller is answered the rows
routerList(role) ==
  /\ backend = "rest"
  /\ lastRequest' = [method |-> "GET", role |-> role, id |-> None, status |-> 200]
  /\ UNCHANGED <<formsTable, stored, uuids>>

\* router.get('/:id')
routerGet(role, id) ==
  /\ backend = "rest"
  /\ lastRequest' = [method |-> "GET", role |-> role, id |-> id,
                     status |-> IF formRows(formsTable, id) = {} THEN 404 ELSE 200]
  /\ UNCHANGED <<formsTable, stored, uuids>>

postRequest(role, body) ==
  /\ backend = "rest"
  /\ uuids < MaxUuids
  /\ LET reply == routerPost(role, formsTable, body, uuidv4(uuids + 1))
     IN /\ formsTable' = reply.forms
        /\ lastRequest' = [method |-> "POST", role |-> role, id |-> None,
                           status |-> reply.status]
        /\ uuids' = IF reply.status = 200 THEN uuids + 1 ELSE uuids
  /\ UNCHANGED stored

putRequest(role, id, body) ==
  /\ backend = "rest"
  /\ \A f \in formRows(formsTable, id) : f.version < MaxVersion
  /\ LET reply == routerPut(role, formsTable, id, body)
     IN /\ formsTable' = reply.forms
        /\ lastRequest' = [method |-> "PUT", role |-> role, id |-> id,
                           status |-> reply.status]
  /\ UNCHANGED <<stored, uuids>>

\* router.delete('/:id'): both DELETE statements
routerDelete(role, id) ==
  /\ backend = "rest"
  /\ IF ~isAdmin(role)
     THEN /\ lastRequest' = [method |-> "DELETE", role |-> role, id |-> id, status |-> 403]
          /\ UNCHANGED <<formsTable, stored>>
     ELSE /\ formsTable' = deleteFormRow(formsTable, id)
          /\ stored' = deleteResponsesOf(stored, id)
          /\ lastRequest' = [method |-> "DELETE", role |-> role, id |-> id, status |-> 200]
  /\ UNCHANGED uuids

\* what no request to the forms router touches
routerFrame ==
  /\ UNCHANGED <<backend, formData, routeId, saving, toast, savedId, deleting, now>>
  /\ UNCHANGED previewVars
  /\ UNCHANGED builderVars
  /\ UNCHANGED extVars

readRequest ==
  /\ \E role \in Roles : routerList(role) \/ \E id \in KnownFormIds : routerGet(role, id)
  /\ routerFrame

createRequest ==
  /\ \E role \in Roles, body \in FormBodies : postRequest(role, body)
  /\ routerFrame

updateRequest ==
  /\ \E role \in Roles, id \in KnownFormIds, body \in FormBodies : putRequest(role, id, body)
  /\ routerFrame

deleteRequest ==
  /\ \E role \in Roles, id \in KnownFormIds : routerDelete(role, id)
  /\ routerFrame

InitRouter ==
  /\ backend = "rest"
  /\ formsTable = {PriorForm}
  /\ stored = <<PriorResponse>>
  /\ lastRequest = NoHttp
  /\ uuids = 0
  /\ formData = initialFormState
  /\ routeId = None
  /\ saving = NoSaving
  /\ toast = None
  /\ savedId = None
  /\ deleting = None
  /\ now = 0
  /\ route = "home"
  /\ variant = 1
  /\ currentForm = NoForm
  /\ responses = EmptyAnswers
  /\ errors = EmptyErrors
  /\ submitting = FALSE
  /\ request = NoRequest
  /\ ctxResponses = <<>>
  /\ wsInput = <<>>
  /\ wsOutput = <<>>
  /\ passes = 0
  /\ ExtIdle

NextRouter ==
  \/ readRequest
  \/ createRequest
  \/ updateRequest
  \/ deleteRequest

SpecRouter == InitRouter /\ [][NextRouter]_vars

(***************************************************************************)
(* Calls to the IndexedDB FormContext (saveForm, deleteForm, saveResponse, *)
(* importForms, importResponses)                                           *)
(***************************************************************************)
\* number of responses held by the store in one run
MaxResponses == 2

\* id of a form or response that comes from an import file written elsewhere
ForeignFormId == "h1"
ForeignResponseId == "s1"

\* db.put('responses', response), tx.store.put(response): insert or overwrite by key
putResponse(resps, response) ==
  IF \E i \in 1..Len(resps) : resps[i].id = response.id
  THEN [i \in 1..Len(resps) |-> IF resps[i].id = response.id THEN response ELSE resps[i]]
  ELSE Append(resps, response)

\* response of the IndexedDB saveResponse: {id: uuidv4(), ...responseData, createdAt}
idbResponse(responseData, newResponseId, createdAt) ==
  [id |-> newResponseId, formId |-> responseData.formId,
   formVersion |-> responseData.formVersion, responses |-> responseData.responses,
   createdAt |-> createdAt, updatedOffline |-> responseData.updatedOffline]

\* for (const form of formsData) await tx.store.put(form)
importedForms(table, formsData) ==
  LET T[i \in 0..Len(formsData)] ==
        IF i = 0 THEN table ELSE dbPut(T[i - 1], formsData[i])
  IN T[Len(formsData)]

\* for (const response of responsesData) await tx.store.put(response)
importedResponses(resps, responsesData) ==
  LET T[i \in 0..Len(responsesData)] ==
        IF i = 0 THEN resps ELSE putResponse(T[i - 1], responsesData[i])
  IN T[Len(responsesData)]

\* what no call to the IndexedDB FormContext touches
idbFrame ==
  /\ UNCHANGED <<backend, formData, routeId, saving, toast, savedId, lastRequest, now>>
  /\ UNCHANGED <<variant, currentForm, responses, errors, submitting, request, route,
                 ctxResponses>>
  /\ UNCHANGED builderVars
  /\ UNCHANGED extVars

\* saveForm(formData), called with or without an id
saveFormCall ==
  /\ backend = "idb"
  /\ \E id \in KnownFormIds \cup {None, ForeignFormId} :
       LET data == [name |-> "n1", questions |-> PriorQuestions, id |-> id]
           newFormId == IF uuids < MaxUuids THEN uuidv4(uuids + 1) ELSE None
           result == idbSaveForm(formsTable, data, newFormId)
       IN /\ id = None => uuids < MaxUuids
          /\ \A f \in formRows(formsTable, id) : f.version < MaxVersion
          /\ formsTable' = result.forms
          /\ uuids' = IF id = None THEN uuids + 1 ELSE uuids
  /\ UNCHANGED <<stored, deleting>>
  /\ idbFrame

\* deleteForm(id) up to the end of db.delete('forms', id); one call at a time
deleteFormCall ==
  /\ backend = "idb"
  /\ deleting = None
  /\ \E id \in KnownFormIds \cup {ForeignFormId} :
       /\ formsTable' = deleteFormRow(formsTable, id)
       /\ deleting' = id
  /\ UNCHANGED <<stored, uuids>>
  /\ idbFrame

\* deleteForm(id): the cursor loop over the by-form-id index, to the end of the call
deleteFormResponses ==
  /\ backend = "idb"
  /\ deleting # None
  /\ stored' = deleteResponsesOf(stored, deleting)
  /\ deleting' = None
  /\ UNCHANGED <<formsTable, uuids>>
  /\ idbFrame

\* answers of a response
ResponseBodies ==
  {{[questionId |-> newId(1), value |-> Str(v)]} : v \in {"x", "y"}}

\* saveResponse(responseData) as FormPreview calls it for a stored form
saveResponseCall ==
  /\ backend = "idb"
  /\ Len(stored) < MaxResponses
  /\ uuids < MaxUuids
  /\ \E f \in formsTable :
       LET responseData == [formId |-> f.id, formVersion |-> f.version,
                            responses |-> CHOOSE b \in ResponseBodies : TRUE,
                            updatedOffline |-> FALSE]
       IN stored' = putResponse(stored, idbResponse(responseData, uuidv4(uuids + 1), now))
  /\ uuids' = uuids + 1
  /\ UNCHANGED <<formsTable, deleting>>
  /\ idbFrame

\* forms of an import file
FileForms ==
  {FormRecord(id, "n1", PriorQuestions, v) :
     id \in {PreviewFormId, ForeignFormId}, v \in 1..MaxVersion}

\* responses of an import file
FileResponses ==
  {[id |-> id, formId |-> PreviewFormId, formVersion |-> 1, responses |-> b,
    createdAt |-> 0, updatedOffline |-> FALSE] :
     id \in {PriorResponse.id, ForeignResponseId}, b \in ResponseBodies}

importForms ==
  /\ backend = "idb"
  /\ \E form \in FileForms : formsTable' = importedForms(formsTable, <<form>>)
  /\ UNCHANGED <<stored, uuids, deleting>>
  /\ idbFrame

importResponses ==
  /\ backend = "idb"
  /\ \E response \in FileResponses :
       /\ (\A i \in 1..Len(stored) : stored[i].id # response.id) => Len(stored) < MaxResponses
       /\ stored' = importedResponses(stored, <<response>>)
  /\ UNCHANGED <<formsTable, uuids, deleting>>
  /\ idbFrame

InitIdb ==
  /\ backend = "idb"
  /\ formsTable = {PriorForm}
  /\ stored = <<PriorResponse>>
  /\ lastRequest = NoHttp
  /\ uuids = 0
  /\ formData = initialFormState
  /\ routeId = None
  /\ saving = NoSaving
  /\ toast = None
  /\ savedId = None
  /\ deleting = None
  /\ now = 0
  /\ route = "home"
  /\ variant = 1
  /\ currentForm = NoForm
  /\ responses = EmptyAnswers
  /\ errors = EmptyErrors
  /\ submitting = FALSE
  /\ request = NoRequest
  /\ ctxResponses = <<>>
  /\ wsInput = <<>>
  /\ wsOutput = <<>>
  /\ passes = 0
  /\ ExtIdle

NextIdb ==
  \/ saveFormCall
  \/ deleteFormCall
  \/ deleteFormResponses
  \/ saveResponseCall
  \/ importForms
  \/ importResponses

SpecIdb == InitIdb /\ [][NextIdb]_vars

(***************************************************************************)
(* Successive FormPreview sessions on a form that is edited in between     *)
(***************************************************************************)
\* a select root, a required boolean child of its first option and a text child of
\* the boolean question
SubmitQuestionLists ==
  {qs \in PreviewQuestionLists :
     /\ qs[1].type = "select"
     /\ qs[2].type = "boolean" /\ qs[2].required
     /\ qs[2].parentId = newId(1) /\ qs[2].parentOptionId = OptionNames[1]
     /\ qs[3].type = "text" /\ ~qs[3].required /\ qs[3].parentId = newId(2)}

SubmitForms ==
  {[id |-> PreviewFormId, version |-> v, questions |-> qs] :
     v \in 1..MaxVersion, qs \in SubmitQuestionLists}

\* FormPreview is opened again after navigate('/'): fresh component state, the form
\* as storage holds it now (edited since or not); the clock has moved on
mountPreview ==
  /\ route = "home"
  /\ Len(stored) < MaxResponses
  /\ route' = "preview"
  /\ currentForm' \in {f \in SubmitForms : f.version >= currentForm.version}
  /\ responses' = EmptyAnswers
  /\ errors' = EmptyErrors
  /\ submitting' = FALSE
  /\ now' = now + 1
  /\ UNCHANGED <<variant, request, stored, ctxResponses>>
  /\ UNCHANGED builderVars
  /\ UNCHANGED extVars
  /\ UNCHANGED storageVars

InitSubmit ==
  /\ variant \in {1, 2}
  /\ currentForm \in SubmitForms
  /\ responses = EmptyAnswers
  /\ errors = EmptyErrors
  /\ submitting = FALSE
  /\ request = NoRequest
  /\ stored = <<>>
  /\ ctxResponses = <<>>
  /\ route = "preview"
  /\ wsInput = <<>>
  /\ wsOutput = <<>>
  /\ passes = 0
  /\ ExtIdle
  /\ StorageIdle

NextSubmit ==
  \/ inputChange
  \/ handleSubmit
  \/ saveResponseOk
  \/ saveResponseFail
  \/ mountPreview

SpecSubmit == InitSubmit /\ [][NextSubmit]_vars

(***************************************************************************)
(* Response export (excelUtils.exportToExcel, responses branch)            *)
(***************************************************************************)
\* result of response.responses.find when nothing matches
NoEntry == [questionId |-> None]

\* response.responses.find(r => r.questionId === id)
findResponse(response, id) ==
  IF \E r \in response.responses : r.questionId = id
  THEN CHOOSE r \in response.responses : r.questionId = id
  ELSE NoEntry

\* mutant of shouldShowSubQuestion: a sub-question is shown as soon as its parent has
\* a recorded answer
shouldShowSubQuestion_ParentAnswered(form, response, question) ==
  IF question.parentId = None THEN TRUE
  ELSE LET parentQuestion == FindQuestion(form.questions, question.parentId) IN
       IF parentQuestion = NoQuestion THEN FALSE
       ELSE findResponse(response, parentQuestion.id) # NoEntry

shouldShowSubQuestion(form, response, question) ==
  IF question.parentId = None THEN TRUE
  ELSE LET parentQuestion == FindQuestion(form.questions, question.parentId) IN
       IF parentQuestion = NoQuestion THEN FALSE
       ELSE LET parentResponse == findResponse(response, parentQuestion.id) IN
            IF parentResponse = NoEntry THEN FALSE
            ELSE IF parentQuestion.type = "select"
            THEN StrictEqualsId(parentResponse.value, question.parentOptionId)
            ELSE IF parentQuestion.type = "multiselect"
            THEN ArrayIncludesId(parentResponse.value, question.parentOptionId)
            ELSE FALSE

\* Option.text of the option whose id is optionId
optionText(optionId) ==
  LET k == CHOOSE i \in 1..Len(OptionNames) : OptionNames[i] = optionId
  IN <<"Text A", "Text B", "Text C", "Text D">>[k]

\* question.options.filter(o => value.includes(o.id)).map(o => o.text).join(', ')
joinedTexts(options, value) ==
  LET chosen == FilterSeq(options, {k \in 1..Len(options) : ArrayIncludesId(value, options[k])})
      J[k \in 0..Len(chosen)] ==
        IF k = 0 THEN ""
        ELSE IF k = 1 THEN optionText(chosen[1])
        ELSE J[k - 1] \o ", " \o optionText(chosen[k])
  IN J[Len(chosen)]

\* the value pushed to the row of response for question
exportCell(form, response, question) ==
  IF ~shouldShowSubQuestion(form, response, question) THEN Str("")
  ELSE LET questionResponse == findResponse(response, question.id) IN
       IF questionResponse = NoEntry THEN Str("")
       ELSE IF question.type = "select"
       THEN IF \E k \in 1..Len(question.options) :
                 StrictEqualsId(questionResponse.value, question.options[k])
            THEN Str(optionText(questionResponse.value.s))
            ELSE Str("")
       ELSE IF question.type = "multiselect"
       THEN IF questionResponse.value.t = "array"
            THEN Str(joinedTexts(question.options, questionResponse.value))
            ELSE Str("")
       ELSE questionResponse.value

(***************************************************************************)
(* Properties of the save path                                             *)
(***************************************************************************)
\* the working set handed to reorganizeQuestions by handleSaveForm
linearizerInput == validQuestions(formData.questions, None)

\* parentId values of the questions whose id is in ids
parentIdsOf(questions, ids) ==
  {questions[i].parentId :
     i \in {j \in 1..Len(questions) : questions[j].id \in ids /\ questions[j].parentId # None}}

\* ids reached from id by following parentId links one or more times
ancestorIds(questions, id) ==
  LET A[k \in 1..Len(questions)] ==
        IF k = 1 THEN parentIdsOf(questions, {id})
        ELSE A[k - 1] \cup parentIdsOf(questions, A[k - 1])
  IN A[Len(questions)]

hasParentCycle(questions) ==
  \E i \in 1..Len(questions) : questions[i].id \in ancestorIds(questions, questions[i].id)

hasDanglingParent(questions) ==
  \E i \in 1..Len(questions) :
    /\ questions[i].parentId # None
    /\ \A j \in 1..Len(questions) : questions[j].id # questions[i].parentId

\* C11: when the working set given to the linearizer at save time contains a parent
\* cycle, the save is rejected: no form derived from it is sent to storage and the
\* save is not reported as done
C11_CycleSaveRejected ==
  (Len(linearizerInput) > 0 /\ hasParentCycle(linearizerInput))
    => (saving = NoSaving /\ toast # FormSavedToast)

\* C12: when the working set contains a child whose parentId resolves to no question
\* of the set, the save fails and the previously persisted form keeps its questions
\* and its version
C12_DanglingSaveFails ==
  (Len(linearizerInput) > 0 /\ hasDanglingParent(linearizerInput))
    => (toast # FormSavedToast /\ PriorForm \in formsTable)

\* C13: no persisted form contains a select or multiselect question whose options
\* list is empty
C13_NoEmptyOptionList ==
  \A f \in formsTable : \A q \in Range(f.questions) :
    q.type \in {"select", "multiselect"} => Len(q.options) > 0

\* C14: on every persisted question parentId and parentOptionId are both present or
\* both absent
C14_ParentPairComplete ==
  \A f \in formsTable : \A q \in Range(f.questions) :
    (q.parentId = None) <=> (q.parentOptionId = None)

\* C16: a save from the new-form route is never sent through the update path, and
\* once it is reported as done storage holds a version 1 record under the returned id
C16_NewFormCreated ==
  /\ (routeId = None /\ saving # NoSaving) => saving.id = None
  /\ (routeId = None /\ toast = FormSavedToast)
       => \E f \in formsTable : f.id = savedId /\ f.version = 1

(***************************************************************************)
(* Properties of the forms router                                          *)
(***************************************************************************)
\* C17: a form write by a caller whose role is not admin is answered 403 and leaves
\* the forms and responses tables as they were; the tables change only in a form
\* write made with role admin; a read is answered by what is stored, whatever the
\* role of the caller
C17_WritesNeedAdmin ==
  [][/\ (lastRequest'.method \in FormWrites /\ lastRequest'.role # "admin")
          => (lastRequest'.status = 403 /\ formsTable' = formsTable /\ stored' = stored)
     /\ (formsTable' # formsTable \/ stored' # stored)
          => (lastRequest'.method \in FormWrites /\ lastRequest'.role = "admin")
     /\ lastRequest'.method = "GET"
          => lastRequest'.status =
               IF lastRequest'.id # None /\ formRows(formsTable, lastRequest'.id) = {}
               THEN 404 ELSE 200]_vars

\* a non-admin update of a form that admin writes have created and updated was refused
C17_Witness ==
  /\ lastRequest.method = "PUT"
  /\ lastRequest.role = "user"
  /\ lastRequest.status = 403
  /\ \E f \in formRows(formsTable, lastRequest.id) : f.id # PreviewFormId /\ f.version > 1

(***************************************************************************)
(* Properties of the IndexedDB storage                                     *)
(***************************************************************************)
\* C15: across every storage operation on a form id (create, update, import) the
\* version of the stored form never decreases, and a form that saveForm creates
\* has version 1
C15_VersionMonotone ==
  [][\A g \in formsTable' :
       /\ \A f \in formRows(formsTable, g.id) : g.version >= f.version
       /\ (formRows(formsTable, g.id) = {} /\ g.id # ForeignFormId) => g.version = 1]_vars

\* the responses of resps whose formId is id
responsesOf(resps, id) == {i \in 1..Len(resps) : resps[i].formId = id}

\* C18: when a deleteForm call ends, storage holds no response of the deleted form,
\* and no step changes a field of a response that stays in storage
C18_CascadeAndImmutable ==
  [][/\ (deleting # None /\ deleting' = None) => responsesOf(stored', deleting) = {}
     /\ \A i \in 1..Len(stored) : \A j \in 1..Len(stored') :
          stored'[j].id = stored[i].id => stored'[j] = stored[i]]_vars

(***************************************************************************)
(* Properties of the response record                                       *)
(***************************************************************************)
\* C19: the response handed to storage by handleSubmit carries the version of the
\* form whose questions validated the answers, an id no stored response has, and
\* the time of the call; storage keeps it as handed over
C19_ResponseBoundToVersion ==
  [][/\ (request = NoRequest /\ request' # NoRequest)
          => /\ isValid(validateForm(variant, currentForm, responses))
             /\ request'.formVersion = currentForm.version
             /\ request'.createdAt = now
             /\ \A i \in 1..Len(stored) : stored[i].id # request'.id
     /\ stored' # stored => stored' = Append(stored, request)]_vars

\* two sessions on two versions of the form have each stored a response
C19_Witness ==
  /\ Len(stored) = 2
  /\ stored[1].formVersion < stored[2].formVersion
  /\ stored[1].id # stored[2].id
  /\ stored[1].createdAt < stored[2].createdAt

(***************************************************************************)
(* Properties of the response export                                       *)
(***************************************************************************)
\* the answer map made of the recorded values of response
recordedValues(form, response) ==
  [id \in QuestionIds(form) |->
     IF findResponse(response, id) = NoEntry THEN Undefined
     ELSE findResponse(response, id).value]

\* an exported cell that shows nothing
cellEmpty(v) == v.t = "undefined" \/ (v.t = "string" /\ v.s = "")

\* a recorded value that holds no answer
valueEmpty(v) ==
  v.t = "undefined" \/ (v.t = "string" /\ v.s = "") \/ (v.t = "array" /\ Len(v.a) = 0)

C21_MissingFormNotFound ==
  [][(/\ lastRequest'.method \in {"GET", "PUT"}
      /\ lastRequest'.role = "admin"
      /\ lastRequest'.id # None
      /\ formRows(formsTable, lastRequest'.id) = {})
       => (lastRequest'.status = 404 /\ formsTable' = formsTable /\ stored' = stored)]_vars

(***************************************************************************)
(* Blank-form export and file import (excelUtils.ts)                       *)
(***************************************************************************)
ExcelTypes == {"text", "number", "date", "boolean", "select", "multiselect"}

ExcelQuestion(k, type, parentId) ==
  [id |-> newId(k), text |-> WorkingTexts[k], type |-> type, required |-> FALSE,
   options |-> IF type \in {"select", "multiselect"} THEN AllOptions ELSE <<>>,
   parentId |-> parentId,
   parentOptionId |-> IF parentId = None THEN None ELSE OptionNames[1]]

\* stored forms handed to the export: a root of every type, then two questions
\* that are roots or sub-questions of an earlier select
ExcelForms ==
  {FormRecord(PreviewFormId, "n1", <<q1, q2, q3>>, 1) :
     q1 \in {ExcelQuestion(1, ty, None) : ty \in ExcelTypes},
     q2 \in {ExcelQuestion(2, ty, pr) : ty \in {"text", "boolean", "select"},
                                        pr \in {None, newId(1)}},
     q3 \in {ExcelQuestion(3, ty, pr) : ty \in {"text", "date"},
                                        pr \in {None, newId(1), newId(2)}}}

FormHeaders == <<"Pregunta", "Tipo", "Respuesta", "ID">>

\* question.options.map(opt => `${opt.id}:${opt.text}`).join('|')
optionsCell(options) ==
  LET J[k \in 0..Len(options)] ==
        IF k = 0 THEN ""
        ELSE IF k = 1 THEN options[1] \o ":" \o optionText(options[1])
        ELSE J[k - 1] \o "|" \o options[k] \o ":" \o optionText(options[k])
  IN J[Len(options)]

\* the sheet row exportToExcel writes for one question of a blank form
formRow(question) ==
  <<IF question.parentId # None THEN "    " \o question.text ELSE question.text,
    question.type,
    IF question.type \in {"select", "multiselect"} THEN optionsCell(question.options)
    ELSE IF question.type = "boolean" THEN "true|false"
    ELSE IF question.type = "date" THEN "DD/MM/YYYY"
    ELSE "",
    question.id>>

instructionsData ==
  << <<"Instrucciones para completar el formulario:">>,
     <<"">>,
     <<"1. No modifique la estructura del archivo">>,
     <<"2. Complete sus respuestas en la columna Respuesta">>,
     <<"3. Para preguntas de seleccion, use los valores exactos mostrados">>,
     <<"4. Para fechas, use el formato DD/MM/YYYY">>,
     <<"5. Para Si/No, use true o false">>,
     <<"6. Las preguntas indentadas son sub-preguntas">>,
     <<"7. Guarde el archivo y subalo nuevamente al sistema">> >>

\* XLSX.utils.book_append_sheet(workbook, sheet, name)
book_append_sheet(book, data, name) == Append(book, [name |-> name, data |-> data])

\* exportToExcel(form.questions, filename, form): the sheets of the written file, in
\* the order they were appended
exportToExcel(form) ==
  LET worksheetData ==
        <<FormHeaders>> \o [k \in 1..Len(form.questions) |-> formRow(form.questions[k])]
  IN book_append_sheet(book_append_sheet(NoWorkbook, instructionsData, "Instrucciones"),
                       worksheetData, "Formulario")

\* XLSX.utils.sheet_to_json(worksheet): the first row names the keys, every later row
\* becomes an object of its cells; a row without cells is skipped.  keepBlank says
\* whether a cell holding the empty string counts as a cell
sheet_to_json(data, keepBlank) ==
  LET hdr == data[1]
      object(row) ==
        {<<hdr[c], row[c]>> : c \in {c \in 1..Len(row) : c <= Len(hdr) /\ (keepBlank \/ row[c] # "")}}
      J[r \in 1..Len(data)] ==
        IF r = 1 THEN <<>>
        ELSE IF object(data[r]) = {} THEN J[r - 1]
        ELSE Append(J[r - 1], object(data[r]))
  IN IF Len(data) = 0 THEN <<>> ELSE J[Len(data)]

\* readExcelFile(file, 'forms'): the rows of the sheet named first in the file
readExcelFile(file, keepBlank) ==
  LET firstSheetName == file[1].name
      worksheet == file[CHOOSE k \in 1..Len(file) : file[k].name = firstSheetName].data
  IN sheet_to_json(worksheet, keepBlank)

\* row[key] of an object returned by sheet_to_json, None where the key is absent
rowValue(row, key) ==
  IF \E p \in row : p[1] = key THEN (CHOOSE p \in row : p[1] = key)[2] ELSE None

exportBlankForm ==
  /\ currentForm # NoForm
  /\ workbook = NoWorkbook
  /\ workbook' = exportToExcel(currentForm)
  /\ UNCHANGED readBack
  /\ UNCHANGED <<coreVars, editorVars, ctxVars, raceVars>>

readFile ==
  /\ workbook # NoWorkbook
  /\ ~readBack.done
  /\ \E keepBlank \in BOOLEAN :
       readBack' = [done |-> TRUE, rows |-> readExcelFile(workbook, keepBlank)]
  /\ UNCHANGED workbook
  /\ UNCHANGED <<coreVars, editorVars, ctxVars, raceVars>>

InitExcel ==
  /\ variant = 1
  /\ currentForm \in ExcelForms
  /\ responses = EmptyAnswers
  /\ errors = EmptyErrors
  /\ submitting = FALSE
  /\ request = NoRequest
  /\ stored = <<>>
  /\ route = "home"
  /\ ctxResponses = <<>>
  /\ wsInput = <<>>
  /\ wsOutput = <<>>
  /\ passes = 0
  /\ ExtIdle
  /\ StorageIdle

NextExcel ==
  \/ exportBlankForm
  \/ readFile

SpecExcel == InitExcel /\ [][NextExcel]_vars

\* C22: reading back the file of a blank-form export yields one row per question of
\* the form, in order, carrying that question's text, type, options and id
C22_RoundTrip ==
  readBack.done =>
    /\ Len(readBack.rows) = Len(currentForm.questions)
    /\ \A k \in 1..Len(readBack.rows) :
         LET row == readBack.rows[k]
             question == currentForm.questions[k]
         IN /\ rowValue(row, "Pregunta") \in {question.text, "    " \o question.text}
            /\ rowValue(row, "Tipo") = question.type
            /\ rowValue(row, "ID") = question.id
            /\ question.type \in {"select", "multiselect"}
                 => rowValue(row, "Respuesta") = optionsCell(question.options)

(***************************************************************************)
(* Renumbering and reachability in the tree linearizer                     *)
(***************************************************************************)
\* positions of the output questions whose input form has the given id
positionsOfGiven(id) == {j \in 1..Len(wsOutput) : asGiven(wsOutput[j]).id = id}

\* C23: the k-th question returned by reorganizeQuestions has id 'q' followed by k
\* padded to three digits, the ids are pairwise distinct, a question that had a
\* parentId in the input carries the new id of exactly its input parent, and its
\* parentOptionId is the one it had
C23_SequentialIdsAndParents ==
  passes >= 1 =>
    /\ \A k \in 1..Len(wsOutput) : wsOutput[k].id = "q00" \o <<"1", "2", "3", "4", "5">>[k]
    /\ \A i \in 1..Len(wsOutput), j \in 1..Len(wsOutput) :
         wsOutput[i].id = wsOutput[j].id => i = j
    /\ \A k \in 1..Len(wsOutput) :
         LET given == asGiven(wsOutput[k]) IN
           /\ wsOutput[k].parentOptionId = given.parentOptionId
           /\ given.parentId = None => wsOutput[k].parentId = None
           /\ given.parentId # None =>
                /\ Cardinality(positionsOfGiven(given.parentId)) = 1
                /\ \A j \in positionsOfGiven(given.parentId) :
                     wsOutput[k].parentId = wsOutput[j].id

C23_Witness ==
  /\ passes = 1
  /\ Len(wsOutput) = 4
  /\ \E k \in 1..Len(wsOutput) :
       /\ asGiven(wsOutput[k]).parentId # None
       /\ asGiven(wsOutput[k]).parentId # wsOutput[k].parentId
       /\ \E j \in 1..Len(wsOutput) :
            /\ wsOutput[j].id = asGiven(wsOutput[k]).parentId
            /\ j # k
            /\ wsOutput[j].id # wsOutput[k].parentId

\* an edge of the working set: the child names the parent and one of the options the
\* parent has now
validEdge(parent, child) ==
  /\ child.parentId # None
  /\ child.parentId = parent.id
  /\ child.parentOptionId \in Range(parent.options)

\* positions of the input questions reachable from a root through valid edges
reachablePositions(questions) ==
  LET roots == {i \in 1..Len(questions) : questions[i].parentId = None}
      R[k \in 0..Len(questions)] ==
        IF k = 0 THEN roots
        ELSE LET reached == R[k - 1] IN
             reached \cup {i \in 1..Len(questions) :
                             \E j \in reached : validEdge(questions[j], questions[i])}
  IN R[Len(questions)]

\* C25: reorganizeQuestions emits exactly the input questions reachable from a root
\* through valid edges, each of them once; every other question is dropped
C25_EmitsReachableOnce ==
  passes >= 1 =>
    LET reachable == reachablePositions(wsInput) IN
      /\ {inputPos(wsOutput[k].text) : k \in 1..Len(wsOutput)} = reachable
      /\ Len(wsOutput) = Cardinality(reachable)
      /\ \A i \in 1..Len(wsOutput), j \in 1..Len(wsOutput) :
           wsOutput[i].text = wsOutput[j].text => i = j

C25_Witness ==
  /\ passes = 1
  /\ Len(wsOutput) = 2
  /\ wsOutput[2].parentId # None
  /\ \E i \in 1..Len(wsInput), j \in 1..Len(wsInput) :
       /\ i \notin reachablePositions(wsInput)
       /\ j \in reachablePositions(wsInput)
       /\ wsInput[i].parentId = wsInput[j].id
       /\ wsInput[j].options # <<>>
  /\ \E i \in 1..Len(wsInput) : wsInput[i].parentId = DanglingId

(***************************************************************************)
(* Questions of the form handed to storage by handleSaveForm               *)
(***************************************************************************)
\* the text is empty or consists of white space
blankText(text) == text \in {"", " "}

\* C24: the form handleSaveForm hands to saveForm holds no question whose text is
\* blank, and holds every root question of the working set whose text is not blank
C24_BlankDroppedRootsKept ==
  [][(saving = NoSaving /\ saving' # NoSaving) =>
       /\ \A k \in 1..Len(saving'.questions) : ~blankText(saving'.questions[k].text)
       /\ \A i \in 1..Len(formData.questions) :
            (formData.questions[i].parentId = None /\ ~blankText(formData.questions[i].text))
              => Cardinality({k \in 1..Len(saving'.questions) :
                                saving'.questions[k].text = formData.questions[i].text}) = 1]_vars

C24_Witness ==
  /\ saving # NoSaving
  /\ blankText(formData.questions[1].text)
  /\ blankText(formData.questions[2].text)
  /\ formData.questions[2].parentId = None
  /\ formData.questions[3].parentId = None
  /\ Len(saving.questions) = 1

(***************************************************************************)
(* Values kept by an input change in FormPreview                           *)
(***************************************************************************)
\* C26: an input change that gives a parent another value leaves the stored value of
\* every child that is live after the change as it was, and leaves the value of every
\* question other than the changed one and its children as it was
C26_LiveChildKeepsValue ==
  [][\A p \in Range(currentForm.questions) :
       responses'[p.id] # responses[p.id] =>
         \A q \in Range(currentForm.questions) :
           /\ (q.parentId = p.id /\ q.id # p.id /\ live(currentForm, responses', q))
                => responses'[q.id] = responses[q.id]
           /\ (q.parentId # p.id /\ q.id # p.id /\ q.parentId # None)
                => responses'[q.id] = responses[q.id]]_vars

(***************************************************************************)
(* Editing the working set (FormBuilder handlers, QuestionEditor)          *)
(***************************************************************************)
\* number of ids drawn by uuidv4() in one editing session
MaxDraws == 3

EditTypes == {"text", "select"}
EditText == "t1"

EditQuestion(id, text, type, options, parentId, parentOptionId) ==
  [id |-> id, text |-> text, type |-> type, options |-> options,
   parentId |-> parentId, parentOptionId |-> parentOptionId]

\* the question handleAddQuestion and handleStartSubQuestion create
newQuestion(id, parentId, parentOptionId) ==
  EditQuestion(id, "", "text", <<>>, parentId, parentOptionId)

\* working sets at the start of the session: a new form, and loaded forms
LoadedWorkingSets ==
  {<<>>,
   <<EditQuestion(newId(1), EditText, "text", <<>>, None, None)>>,
   <<EditQuestion(newId(1), EditText, "select", AllOptions, None, None),
     EditQuestion(newId(2), EditText, "text", <<>>, newId(1), OptionNames[1])>>,
   <<EditQuestion(newId(1), EditText, "select", AllOptions, None, None),
     EditQuestion(newId(2), EditText, "select", <<OptionNames[MaxOptions + 1]>>,
                  newId(1), OptionNames[1]),
     EditQuestion(newId(3), EditText, "text", <<>>, newId(2), OptionNames[MaxOptions + 1])>>}

\* handleUpdateQuestion(updatedQuestion): the next formData.questions
handleUpdateQuestion(questions, updatedQuestion, freshId) ==
  LET questionWithValidId ==
        [updatedQuestion EXCEPT !.id = IF updatedQuestion.id # None
                                       THEN updatedQuestion.id ELSE freshId]
  IN IF ~\E i \in 1..Len(questions) : questions[i].id = questionWithValidId.id
     THEN Append(questions, questionWithValidId)
     ELSE [i \in 1..Len(questions) |->
             IF questions[i].id = questionWithValidId.id THEN questionWithValidId
             ELSE questions[i]]

\* handleDeleteQuestion(questionId): the next formData.questions
handleDeleteQuestion(questions, questionId) ==
  LET D[k \in 0..Len(questions)] ==
        IF k = 0 THEN {questionId}
        ELSE LET found == D[k - 1] IN
             found \cup {questions[i].id : i \in {i \in 1..Len(questions) :
                                                   questions[i].parentId \in found}}
      questionsToDelete == D[Len(questions)]
  IN FilterSeq(questions, {i \in 1..Len(questions) : questions[i].id \notin questionsToDelete})

\* handleTypeChange(newType) of the editor of question: the question passed to onUpdate
handleTypeChange(question, newType, freshId) ==
  IF newType \notin {"select", "multiselect"}
  THEN [question EXCEPT !.type = newType, !.options = <<>>]
  ELSE IF question.type \in {"select", "multiselect"}
  THEN [question EXCEPT !.type = newType]
  ELSE [question EXCEPT !.type = newType, !.options = <<freshId>>]

\* handleTypeChange draws an option id when a question without options gets a type
\* that has them
typeChangeDraws(question, newType) ==
  newType \in {"select", "multiselect"} /\ question.type \notin {"select", "multiselect"}

\* handleAddOption
handleAddOption(question, freshId) ==
  [question EXCEPT !.options = Append(question.options, freshId)]

\* handleDeleteOption(optionId)
handleDeleteOption(question, optionId) ==
  [question EXCEPT !.options = FilterSeq(question.options,
                                {k \in 1..Len(question.options) : question.options[k] # optionId})]

\* ids of the saved questions that have a QuestionEditor on screen: the main
\* questions, and recursively getSubQuestionsForOption(option.id) of every option
\* of a question on screen
editorIds(questions) ==
  LET E[k \in 0..Len(questions)] ==
        IF k = 0 THEN {questions[i].id : i \in {i \in 1..Len(questions) :
                                                 questions[i].parentId = None}}
        ELSE LET shown == E[k - 1] IN
             shown \cup {questions[i].id : i \in {i \in 1..Len(questions) :
                 \E j \in 1..Len(questions) :
                    /\ questions[j].id \in shown
                    /\ questions[j].type \in {"select", "multiselect"}
                    /\ questions[i].parentOptionId \in Range(questions[j].options)}}
  IN E[Len(questions)]

\* positions of the saved questions that have a QuestionEditor on screen
shownPositions ==
  LET shown == editorIds(formData.questions) IN
  {i \in 1..Len(formData.questions) : formData.questions[i].id \in shown}

editorFrame ==
  /\ UNCHANGED <<previewVars, builderVars, excelVars, ctxVars, raceVars, now>>
  /\ UNCHANGED <<backend, formsTable, routeId, saving, toast, savedId, lastRequest, deleting>>

setQuestions(questions) == formData' = [formData EXCEPT !.questions = questions]

\* state of one QuestionEditor with an open sub-question form: the question it
\* edits, showSubQuestionForm and newSubQuestion
subQuestionForm(owner, optionId, subQuestion) ==
  [owner |-> owner, option |-> optionId, sub |-> subQuestion]

\* the sub-question form of the editor of a saved question is on screen
draftShown ==
  /\ Len(draft) >= 1
  /\ \E i \in shownPositions :
       /\ formData.questions[i].id = draft[1].owner
       /\ formData.questions[i].type \in {"select", "multiselect"}
       /\ draft[1].option \in Range(formData.questions[i].options)

\* the sub-question form of the editor nested in that form is on screen
nestedDraftShown ==
  /\ draftShown
  /\ Len(draft) = 2
  /\ draft[1].sub.type \in {"select", "multiselect"}
  /\ draft[2].option \in Range(draft[1].sub.options)

addQuestion ==
  /\ uuids < MaxDraws
  /\ setQuestions(Append(formData.questions, newQuestion(uuidv4(uuids + 1), None, None)))
  /\ uuids' = uuids + 1
  /\ UNCHANGED draft
  /\ editorFrame

\* the text input of the editor of a saved question
editText ==
  /\ \E i \in shownPositions :
       setQuestions(handleUpdateQuestion(formData.questions,
                      [formData.questions[i] EXCEPT !.text = EditText], None))
  /\ UNCHANGED <<uuids, draft>>
  /\ editorFrame

changeType ==
  /\ \E i \in shownPositions, newType \in EditTypes :
       LET question == formData.questions[i] IN
         /\ typeChangeDraws(question, newType) => uuids < MaxDraws
         /\ setQuestions(handleUpdateQuestion(formData.questions,
                           handleTypeChange(question, newType, uuidv4(uuids + 1)), None))
         /\ uuids' = IF typeChangeDraws(question, newType) THEN uuids + 1 ELSE uuids
  /\ UNCHANGED draft
  /\ editorFrame

addOption ==
  /\ uuids < MaxDraws
  /\ \E i \in shownPositions :
       LET question == formData.questions[i] IN
         /\ question.type \in {"select", "multiselect"}
         /\ setQuestions(handleUpdateQuestion(formData.questions,
                           handleAddOption(question, uuidv4(uuids + 1)), None))
  /\ uuids' = uuids + 1
  /\ UNCHANGED draft
  /\ editorFrame

deleteOption ==
  /\ \E i \in shownPositions :
       LET question == formData.questions[i] IN
         /\ question.type \in {"select", "multiselect"}
         /\ \E optionId \in Range(question.options) :
              setQuestions(handleUpdateQuestion(formData.questions,
                             handleDeleteOption(question, optionId), None))
  /\ UNCHANGED <<uuids, draft>>
  /\ editorFrame

\* the delete button of the editor of a main question
deleteQuestion ==
  /\ \E i \in 1..Len(formData.questions) :
       /\ formData.questions[i].parentId = None
       /\ setQuestions(handleDeleteQuestion(formData.questions, formData.questions[i].id))
  /\ UNCHANGED <<uuids, draft>>
  /\ editorFrame

\* the delete button of the editor of a saved sub-question: onUpdate({...question})
\* of the question it is shown under
deleteSubQuestion ==
  /\ \E i \in shownPositions, j \in 1..Len(formData.questions) :
       /\ formData.questions[i].type \in {"select", "multiselect"}
       /\ formData.questions[j].parentOptionId \in Range(formData.questions[i].options)
       /\ setQuestions(handleUpdateQuestion(formData.questions, formData.questions[i], None))
  /\ UNCHANGED <<uuids, draft>>
  /\ editorFrame

\* handleStartSubQuestion(optionId) in the editor of a saved question
startSubQuestion ==
  /\ uuids < MaxDraws
  /\ \E i \in shownPositions :
       LET question == formData.questions[i] IN
         /\ question.type \in {"select", "multiselect"}
         /\ \E optionId \in Range(question.options) :
              draft' = <<subQuestionForm(question.id, optionId,
                                         newQuestion(uuidv4(uuids + 1), question.id, optionId))>>
  /\ uuids' = uuids + 1
  /\ UNCHANGED formData
  /\ editorFrame

\* handleUpdateNewSubQuestion(updatedSubQuestion)
handleUpdateNewSubQuestion(forms, updatedSubQuestion) ==
  [forms EXCEPT ![1] = [forms[1] EXCEPT !.sub = updatedSubQuestion]]

\* an input of the editor nested in the sub-question form: onUpdate is
\* handleUpdateNewSubQuestion of the editor that owns the form
editDraft ==
  /\ draftShown
  /\ LET question == draft[1].sub IN
       \/ /\ draft' = handleUpdateNewSubQuestion(draft, [question EXCEPT !.text = EditText])
          /\ UNCHANGED uuids
       \/ \E newType \in EditTypes :
            /\ typeChangeDraws(question, newType) => uuids < MaxDraws
            /\ draft' = handleUpdateNewSubQuestion(draft,
                          handleTypeChange(question, newType, uuidv4(uuids + 1)))
            /\ uuids' = IF typeChangeDraws(question, newType) THEN uuids + 1 ELSE uuids
       \/ /\ question.type \in {"select", "multiselect"}
          /\ \E optionId \in Range(question.options) :
               draft' = handleUpdateNewSubQuestion(draft, handleDeleteOption(question, optionId))
          /\ UNCHANGED uuids
  /\ UNCHANGED formData
  /\ editorFrame

\* handleStartSubQuestion(optionId) in the editor nested in the sub-question form
startNestedSubQuestion ==
  /\ draftShown
  /\ uuids < MaxDraws
  /\ LET question == draft[1].sub IN
       /\ question.type \in {"select", "multiselect"}
       /\ \E optionId \in Range(question.options) :
            draft' = <<draft[1],
                       subQuestionForm(question.id, optionId,
                                       newQuestion(uuidv4(uuids + 1), question.id, optionId))>>
  /\ uuids' = uuids + 1
  /\ UNCHANGED formData
  /\ editorFrame

\* handleSaveSubQuestion of the nested editor: its onUpdate is
\* handleUpdateNewSubQuestion of the editor that owns the outer form
saveNestedSubQuestion ==
  /\ nestedDraftShown
  /\ draft' = handleUpdateNewSubQuestion(<<draft[1]>>, draft[2].sub)
  /\ UNCHANGED <<formData, uuids>>
  /\ editorFrame

\* handleSaveSubQuestion of the editor of a saved question: its onUpdate is
\* handleUpdateQuestion
saveSubQuestion ==
  /\ draftShown
  /\ setQuestions(handleUpdateQuestion(formData.questions, draft[1].sub, None))
  /\ draft' = <<>>
  /\ UNCHANGED uuids
  /\ editorFrame

\* the cancel buttons of the two sub-question forms
cancelSubQuestion ==
  /\ draftShown
  /\ draft' = IF nestedDraftShown THEN <<draft[1]>> ELSE <<>>
  /\ UNCHANGED <<formData, uuids>>
  /\ editorFrame

InitEditor ==
  /\ variant = 1
  /\ currentForm = NoForm
  /\ responses = EmptyAnswers
  /\ errors = EmptyErrors
  /\ submitting = FALSE
  /\ request = NoRequest
  /\ stored = <<>>
  /\ route = "builder"
  /\ ctxResponses = <<>>
  /\ wsInput = <<>>
  /\ wsOutput = <<>>
  /\ passes = 0
  /\ ExtIdle
  /\ backend = "rest"
  /\ formsTable = {}
  /\ formData \in [name : {"n1"}, questions : LoadedWorkingSets]
  /\ routeId = None
  /\ saving = NoSaving
  /\ toast = None
  /\ savedId = None
  /\ lastRequest = NoHttp
  /\ uuids = 0
  /\ deleting = None
  /\ now = 0

NextEditor ==
  \/ addQuestion
  \/ editText
  \/ changeType
  \/ addOption
  \/ deleteOption
  \/ deleteQuestion
  \/ deleteSubQuestion
  \/ startSubQuestion
  \/ editDraft
  \/ startNestedSubQuestion
  \/ saveNestedSubQuestion
  \/ saveSubQuestion
  \/ cancelSubQuestion

SpecEditor == InitEditor /\ [][NextEditor]_vars

\* C27: every question of the working set that has a parentId names a question of
\* the working set whose options hold its parentOptionId, and the ids of the working
\* set are pairwise distinct
C27_WorkingSetWellFormed ==
  LET questions == formData.questions IN
    /\ \A i \in 1..Len(questions) :
         questions[i].parentId # None =>
           \E j \in 1..Len(questions) :
             /\ questions[j].id = questions[i].parentId
             /\ questions[i].parentOptionId \in Range(questions[j].options)
    /\ \A i \in 1..Len(questions), j \in 1..Len(questions) :
         questions[i].id = questions[j].id => i = j

(***************************************************************************)
(* FormContext calls in flight while the user moves between form routes    *)
(***************************************************************************)
OtherFormId == "f2"

\* the forms the server holds: two forms that differ in id, questions and version
ContextForms ==
  {FormRecord(PreviewFormId, "n1", <<Question(newId(1), "text", FALSE, None, None)>>, 1),
   FormRecord(OtherFormId, "n2",
              <<Question(newId(1), "boolean", FALSE, None, None),
                Question(newId(2), "text", FALSE, None, None)>>, 2)}

LoadErrorToast == "error_loading_form"
ResponsesErrorToast == "error_loading_responses"

\* a call of FormContext whose fetch has not been answered yet
pendingCall(op, id) == [op |-> op, id |-> id]

\* the calls made by the useEffect of the page shown for a route
effectCalls(page, id) ==
  IF page = "preview" THEN {pendingCall("loadForm", id)}
  ELSE IF page = "responses"
  THEN {pendingCall("loadForm", id), pendingCall("loadResponses", id)}
  ELSE {}

contextFrame ==
  /\ UNCHANGED <<variant, request, stored, now>>
  /\ UNCHANGED <<builderVars, excelVars, editorVars, raceVars>>
  /\ UNCHANGED <<backend, formsTable, formData, routeId, saving, savedId, lastRequest,
                 uuids, deleting>>

\* the user opens another route; the page's useEffect starts its calls, each of
\* which dispatches SET_LOADING true before its fetch.  FormPreview keeps its local
\* state when only the id of the route changes
navigateTo(page, id) ==
  /\ request = NoRequest
  /\ <<page, id>> # <<route, paramId>>
  /\ page = "preview" => Len(stored) < MaxResponses
  /\ effectCalls(page, id) \cap inflight = {}
  /\ route' = page
  /\ paramId' = id
  /\ inflight' = inflight \cup effectCalls(page, id)
  /\ isLoading' = IF effectCalls(page, id) # {} THEN TRUE ELSE isLoading
  /\ IF route = "preview" /\ page = "preview"
     THEN UNCHANGED <<responses, errors, submitting>>
     ELSE /\ responses' = EmptyAnswers
          /\ errors' = EmptyErrors
          /\ submitting' = FALSE
  /\ UNCHANGED <<currentForm, ctxResponses, toast>>
  /\ contextFrame

\* the routes the user opens: the list, the preview and the responses of a form
Routes ==
  {<<"home", None>>} \cup ({"preview"} \X {PreviewFormId, OtherFormId, DanglingId})
    \cup ({"responses"} \X {PreviewFormId, OtherFormId})

navigate == \E target \in Routes : navigateTo(target[1], target[2])

\* the fetch of a loadForm call is answered with the form: SET_CURRENT_FORM, then
\* SET_LOADING false
loadFormOk ==
  /\ \E call \in inflight :
       /\ call.op = "loadForm"
       /\ formRows(formsTable, call.id) # {}
       /\ currentForm' = CHOOSE form \in formRows(formsTable, call.id) : TRUE
       /\ inflight' = inflight \ {call}
  /\ isLoading' = FALSE
  /\ UNCHANGED <<route, paramId, responses, errors, submitting, ctxResponses, toast>>
  /\ contextFrame

\* the fetch of a loadForm call fails or is answered 404: SET_ERROR, toast, then
\* SET_LOADING false
loadFormFail ==
  /\ \E call \in inflight :
       /\ call.op = "loadForm"
       /\ inflight' = inflight \ {call}
  /\ toast' = LoadErrorToast
  /\ isLoading' = FALSE
  /\ UNCHANGED <<route, paramId, responses, errors, submitting, ctxResponses, currentForm>>
  /\ contextFrame

\* the fetch of a loadResponses call is answered: SET_RESPONSES, then SET_LOADING false
loadResponsesOk ==
  /\ \E call \in inflight :
       /\ call.op = "loadResponses"
       /\ ctxResponses' = IF call.id = PreviewFormId
                          THEN SelectSeq(stored, LAMBDA r : r.formId = call.id)
                          ELSE ctxResponses
       /\ inflight' = inflight \ {call}
  /\ isLoading' = FALSE
  /\ UNCHANGED <<route, paramId, responses, errors, submitting, currentForm, toast>>
  /\ contextFrame

loadResponsesFail ==
  /\ \E call \in inflight :
       /\ call.op = "loadResponses"
       /\ inflight' = inflight \ {call}
  /\ toast' = ResponsesErrorToast
  /\ isLoading' = FALSE
  /\ UNCHANGED <<route, paramId, responses, errors, submitting, ctxResponses, currentForm>>
  /\ contextFrame

InitContext ==
  /\ variant \in {1, 2}
  /\ currentForm = NoForm
  /\ responses = EmptyAnswers
  /\ errors = EmptyErrors
  /\ submitting = FALSE
  /\ request = NoRequest
  /\ stored = <<>>
  /\ route = "home"
  /\ ctxResponses = <<>>
  /\ wsInput = <<>>
  /\ wsOutput = <<>>
  /\ passes = 0
  /\ workbook = NoWorkbook
  /\ readBack = NotRead
  /\ draft = <<>>
  /\ paramId = None
  /\ isLoading = FALSE
  /\ inflight = {}
  /\ saveCalls = 0
  /\ updatesDone = 0
  /\ backend = "rest"
  /\ formsTable = ContextForms
  /\ formData = initialFormState
  /\ routeId = None
  /\ saving = NoSaving
  /\ toast = None
  /\ savedId = None
  /\ lastRequest = NoHttp
  /\ uuids = 0
  /\ deleting = None
  /\ now = 0

NextContext ==
  \/ navigate
  \/ loadFormOk
  \/ loadFormFail
  \/ loadResponsesOk
  \/ loadResponsesFail
  \/ handleSubmit
  \/ saveResponseOk
  \/ saveResponseFail

SpecContext == InitContext /\ [][NextContext]_vars

\* C28: the response handleSubmit hands to saveResponse carries as formId the id of
\* the form (currentForm) whose questions and version it was built from
C28_ResponseUnderOwnForm ==
  [][(request = NoRequest /\ request' # NoRequest) => request'.formId = currentForm.id]_vars

\* C29: isLoading is true while a FormContext call is in flight and false when none is
C29_LoadingIffInFlight ==
  isLoading <=> (inflight # {} \/ request # NoRequest)

(***************************************************************************)
(* Overlapping saveForm calls on IndexedDB                                 *)
(***************************************************************************)
\* number of saveForm calls started in one run
MaxSaves == 3

SaveNames == <<"n1", "n2", "n3", "n4">>

\* a saveForm call between its awaits: "get" while db.get is pending, "put" while
\* db.put of the form it built is pending
saveFormPending(id, name, phase, form) ==
  [op |-> "saveForm", id |-> id, name |-> name, phase |-> phase, form |-> form]

raceFrame ==
  /\ UNCHANGED <<variant, responses, errors, submitting, request, stored, route, ctxResponses>>
  /\ UNCHANGED <<builderVars, excelVars, editorVars, paramId, now>>
  /\ UNCHANGED <<backend, formData, routeId, saving, savedId, lastRequest, deleting>>

\* saveForm(formData) up to its first await: SET_LOADING true, then db.get of the
\* form to update, or db.put of a new form
saveFormStart ==
  /\ saveCalls < MaxSaves
  /\ \E id \in {PreviewFormId, DanglingId, None} :
       /\ id = None => uuids < MaxUuids
       /\ inflight' = inflight \cup
            {IF id # None
             THEN saveFormPending(id, SaveNames[saveCalls + 1], "get", NoForm)
             ELSE saveFormPending(id, SaveNames[saveCalls + 1], "put",
                    FormRecord(uuidv4(uuids + 1), SaveNames[saveCalls + 1], PriorQuestions, 1))}
       /\ uuids' = IF id = None THEN uuids + 1 ELSE uuids
  /\ saveCalls' = saveCalls + 1
  /\ isLoading' = TRUE
  /\ UNCHANGED <<formsTable, currentForm, toast, updatesDone>>
  /\ raceFrame

\* db.get is answered: the call builds the form from what it read, or throws
\* 'Form not found' (SET_ERROR, then SET_LOADING false)
saveFormGot ==
  /\ \E call \in inflight :
       /\ call.op = "saveForm"
       /\ call.phase = "get"
       /\ LET existing == formRows(formsTable, call.id) IN
            IF existing = {}
            THEN /\ inflight' = inflight \ {call}
                 /\ isLoading' = FALSE
            ELSE LET existingForm == CHOOSE form \in existing : TRUE IN
                 /\ inflight' = (inflight \ {call}) \cup
                      {saveFormPending(call.id, call.name, "put",
                         [existingForm EXCEPT !.name = call.name,
                                              !.version = existingForm.version + 1])}
                 /\ UNCHANGED isLoading
  /\ UNCHANGED <<formsTable, currentForm, toast, uuids, saveCalls, updatesDone>>
  /\ raceFrame

\* db.put is answered: UPDATE_FORM / ADD_FORM, SET_CURRENT_FORM, toast, then
\* SET_LOADING false
saveFormPut ==
  /\ \E call \in inflight :
       /\ call.op = "saveForm"
       /\ call.phase = "put"
       /\ formsTable' = dbPut(formsTable, call.form)
       /\ currentForm' = call.form
       /\ inflight' = inflight \ {call}
       /\ updatesDone' = IF call.id # None THEN updatesDone + 1 ELSE updatesDone
  /\ toast' = FormSavedToast
  /\ isLoading' = FALSE
  /\ UNCHANGED <<uuids, saveCalls>>
  /\ raceFrame

InitRace ==
  /\ variant = 1
  /\ currentForm = NoForm
  /\ responses = EmptyAnswers
  /\ errors = EmptyErrors
  /\ submitting = FALSE
  /\ request = NoRequest
  /\ stored = <<>>
  /\ route = "builder"
  /\ ctxResponses = <<>>
  /\ wsInput = <<>>
  /\ wsOutput = <<>>
  /\ passes = 0
  /\ ExtIdle
  /\ backend = "idb"
  /\ formsTable = {PriorForm}
  /\ formData = initialFormState
  /\ routeId = None
  /\ saving = NoSaving
  /\ toast = None
  /\ savedId = None
  /\ lastRequest = NoHttp
  /\ uuids = 0
  /\ deleting = None
  /\ now = 0

NextRace ==
  \/ saveFormStart
  \/ saveFormGot
  \/ saveFormPut

SpecRace == InitRace /\ [][NextRace]_vars

\* C30: once the overlapping saveForm calls have returned, the stored version of the
\* form is its version before them plus the number of updates that succeeded
C30_NoLostIncrement ==
  inflight = {} =>
    \A form \in formRows(formsTable, PreviewFormId) :
      form.version = PriorForm.version + updatesDone
====
